---- MODULE Spec2Model ----
(***************************************************************************)
(* A model of the Tetris engine of src/script.js: the TetrisGame class     *)
(* (board, falling piece, collision test, merge, line clear, scoring,      *)
(* levelling, game loop, pause, restart) and the part of InputHandler that *)
(* routes key presses to it.                                               *)
(*                                                                         *)
(* Coordinates, shape indices and rotation indices are 0-based as in the   *)
(* source; TLA+ sequences are 1-based, so board[row][col] of the source is *)
(* board[row + 1][col + 1] here.                                           *)
(***************************************************************************)
EXTENDS Integers, Sequences, FiniteSets, TLC

\* ------------------------------------------------------------------------
\* Configuration (TetrisGame.constructor): a valid configuration, chosen
\* small.  validateConfig accepts widths and heights in 4..50.
BOARD_WIDTH == 4
BOARD_HEIGHT == 5
MAX_LEVEL == 21
MAX_INACTIVITY == 2000
MAX_ERRORS == 2

\* ------------------------------------------------------------------------
\* Bounds of the model.
\* Pieces merged into the board within one session: once that many have
\* been merged the session is left as it is, unless the game is over.
MaxPieces == 1
\* The same, for the runs that play with the keys and for the long runs.
MaxPlayPieces == 2
MaxDeepPieces == 215
\* The animation clock stops advancing at MaxTime (milliseconds).
MaxTime == 2400
\* The two frame intervals the animation clock may advance by.
DeltaShort == 600
DeltaLong == 1200
MaxFaults == 3

\* ------------------------------------------------------------------------
\* SHAPES[shapeIndex + 1][rotation + 1] is a matrix: a sequence of rows.
SHAPES ==
  << \* T
     << << <<1,1,1>>, <<0,1,0>> >>,
        << <<0,1>>, <<1,1>>, <<0,1>> >>,
        << <<0,1,0>>, <<1,1,1>> >>,
        << <<1,0>>, <<1,1>>, <<1,0>> >> >>,
     \* J
     << << <<1,0,0>>, <<1,1,1>> >>,
        << <<0,1>>, <<0,1>>, <<1,1>> >>,
        << <<1,1,1>>, <<0,0,1>> >>,
        << <<1,1>>, <<1,0>>, <<1,0>> >> >>,
     \* L
     << << <<0,0,1>>, <<1,1,1>> >>,
        << <<1,1>>, <<0,1>>, <<0,1>> >>,
        << <<1,1,1>>, <<1,0,0>> >>,
        << <<1,0>>, <<1,0>>, <<1,1>> >> >>,
     \* O
     << << <<1,1>>, <<1,1>> >> >>,
     \* S
     << << <<0,1,1>>, <<1,1,0>> >>,
        << <<1,0>>, <<1,1>>, <<0,1>> >> >>,
     \* Z
     << << <<1,1,0>>, <<0,1,1>> >>,
        << <<0,1>>, <<1,1>>, <<1,0>> >> >>,
     \* I
     << << <<1,1,1,1>> >>,
        << <<1>>, <<1>>, <<1>>, <<1>> >> >> >>

\* The outcomes of the two Math.random() draws of spawnPiece.
AllChoices ==
  { ch \in [shapeIndex : 0..(Len(SHAPES) - 1), rotation : 0..3] :
      ch.rotation < Len(SHAPES[ch.shapeIndex + 1]) }

\* The absent piece (currentPiece: null).
NULL == [shape |-> <<>>, x |-> 0, y |-> 0, shapeIndex |-> -1, rotation |-> -1]

Min(a, b) == IF a < b THEN a ELSE b
Max(a, b) == IF a > b THEN a ELSE b

\* ------------------------------------------------------------------------
\* Board

emptyRow == [c \in 1..BOARD_WIDTH |-> 0]

createBoard == [r \in 1..BOARD_HEIGHT |-> emptyRow]

\* ------------------------------------------------------------------------
\* Collision

\* The margin of isCollision's pre-check of the piece position.
PositionMargin == 10

\* The numbers a piece position may hold (typeof x === 'number'): the
\* integers, and Infinity, -Infinity and NaN, which are written as integers
\* beyond every coordinate and every sum of coordinates of the model.
Infinity == 1000000
NaN == 2000000

isFinite(n) == -Infinity < n /\ n < Infinity

\* a + b for a finite b: a non-finite a stays what it is.
plus(a, b) == IF isFinite(a) THEN a + b ELSE a

\* a < b and a >= b: every comparison with NaN is false.
lessThan(a, b) == a # NaN /\ b # NaN /\ a < b

atLeast(a, b) == a # NaN /\ b # NaN /\ a >= b

validatePiece(piece) ==
  /\ piece # NULL
  /\ Len(piece.shape) # 0
  /\ \A r \in 1..Len(piece.shape) : Len(piece.shape[r]) # 0

\* cellCollides without the test against the right edge of the board.
cellCollidesNoRightEdge(piece, board, offsetX, offsetY, row, col) ==
  LET newX == plus(piece.x, col + offsetX)
      newY == plus(piece.y, row + offsetY)
  IN  IF lessThan(newX, 0) \/ atLeast(newY, BOARD_HEIGHT)
      THEN TRUE
      ELSE /\ atLeast(newY, 0)
           /\ lessThan(newY, Len(board))
           /\ atLeast(newX, 0)
           /\ lessThan(newX, Len(board[newY + 1]))
           /\ board[newY + 1][newX + 1] # 0

\* The body of the two nested loops of isCollision for one cell (row, col).
cellCollides(piece, board, offsetX, offsetY, row, col) ==
  LET newX == plus(piece.x, col + offsetX)
      newY == plus(piece.y, row + offsetY)
  IN  IF \/ lessThan(newX, 0)
         \/ atLeast(newX, BOARD_WIDTH)
         \/ atLeast(newY, BOARD_HEIGHT)
      THEN TRUE
      ELSE /\ atLeast(newY, 0)
           /\ lessThan(newY, Len(board))
           /\ atLeast(newX, 0)
           /\ lessThan(newX, Len(board[newY + 1]))
           /\ board[newY + 1][newX + 1] # 0

\* The nested for loops of isCollision, scanning row-major from (row, col)
\* and returning at the first colliding occupied cell.
RECURSIVE collisionScan(_, _, _, _, _, _)
collisionScan(piece, board, offsetX, offsetY, row, col) ==
  IF row >= Len(piece.shape) THEN FALSE
  ELSE IF col >= Len(piece.shape[row + 1])
       THEN collisionScan(piece, board, offsetX, offsetY, row + 1, 0)
  ELSE IF /\ piece.shape[row + 1][col + 1] # 0
          /\ cellCollides(piece, board, offsetX, offsetY, row, col)
       THEN TRUE
  ELSE collisionScan(piece, board, offsetX, offsetY, row, col + 1)

isCollision(piece, board, offsetX, offsetY) ==
  IF ~validatePiece(piece) THEN TRUE
  ELSE IF \/ lessThan(piece.x, -PositionMargin)
          \/ lessThan(BOARD_WIDTH + PositionMargin, piece.x)
          \/ lessThan(piece.y, -PositionMargin)
          \/ lessThan(BOARD_HEIGHT + PositionMargin, piece.y)
       THEN TRUE
  ELSE collisionScan(piece, board, offsetX, offsetY, 0, 0)

\* ------------------------------------------------------------------------
\* High-score store (localStorage item 'tetrisHighScore').  The item is a
\* string of decimal digits, modelled as a sequence of digits; NoItem is
\* the absent item (getItem returns null).

NoItem == <<>>

\* Number.prototype.toString for a non-negative integer.
RECURSIVE toString(_)
toString(n) ==
  IF n < 10 THEN <<n>> ELSE Append(toString(n \div 10), n % 10)

\* parseInt(stored, 10) for a string of decimal digits.
RECURSIVE parseInt(_)
parseInt(str) ==
  IF Len(str) = 1 THEN str[1]
  ELSE parseInt(SubSeq(str, 1, Len(str) - 1)) * 10 + str[Len(str)]

\* loadHighScore: the score read, and the store after the read.
loadHighScore(storage) ==
  IF storage = NoItem THEN [score |-> 0, storage |-> storage]
  ELSE LET score == parseInt(storage)
       IN  IF score < 0 \/ score > 999999999
           THEN [score |-> 0, storage |-> NoItem]
           ELSE [score |-> score, storage |-> storage]

\* saveHighScore rejecting the two ends of the range it accepts.
saveHighScoreExclusive(storage, score) ==
  IF score <= 0 \/ score >= 999999999 THEN storage
  ELSE toString(score)

\* saveHighScore: the store after the call.
saveHighScore(storage, score) ==
  IF score < 0 \/ score > 999999999 THEN storage
  ELSE toString(score)

\* ------------------------------------------------------------------------
\* Engine operations.  A world w is [gameState, storage]: what the engine's
\* synchronous operations read and write.  Each operation is a function of
\* the world (and of its arguments) to the world it leaves.

createInitialGameState(storage) ==
  [ board |-> createBoard,
    currentPiece |-> NULL,
    score |-> 0,
    level |-> 1,
    lines |-> 0,
    highScore |-> loadHighScore(storage).score,
    dropCounter |-> 0,
    dropInterval |-> 1000,
    gameRunning |-> FALSE,
    gamePaused |-> FALSE,
    gameOver |-> FALSE,
    inactivityTimer |-> 0 ]

\* endGame leaving gameRunning as it was.
endGameStillRunning(w) ==
  LET g == w.gameState
      over == [g EXCEPT !.gameOver = TRUE]
  IN  IF g.score > g.highScore
      THEN [ gameState |-> [over EXCEPT !.highScore = g.score],
             storage |-> saveHighScore(w.storage, g.score) ]
      ELSE [w EXCEPT !.gameState = over]

endGame(w) ==
  LET g == w.gameState
      over == [g EXCEPT !.gameOver = TRUE, !.gameRunning = FALSE]
  IN  IF g.score > g.highScore
      THEN [ gameState |-> [over EXCEPT !.highScore = g.score],
             storage |-> saveHighScore(w.storage, g.score) ]
      ELSE [w EXCEPT !.gameState = over]

\* spawnPiece without the game-over check.
spawnPieceNoCheck(w, ch) ==
  LET selectedShape == SHAPES[ch.shapeIndex + 1][ch.rotation + 1]
      piece == [ shape |-> selectedShape,
                 x |-> (BOARD_WIDTH \div 2) - (Len(selectedShape[1]) \div 2),
                 y |-> 0,
                 shapeIndex |-> ch.shapeIndex,
                 rotation |-> ch.rotation ]
  IN  [w EXCEPT !.gameState.currentPiece = piece]

\* spawnPiece, with ch the outcome of its two random draws.
spawnPiece(w, ch) ==
  LET selectedShape == SHAPES[ch.shapeIndex + 1][ch.rotation + 1]
      piece == [ shape |-> selectedShape,
                 x |-> (BOARD_WIDTH \div 2) - (Len(selectedShape[1]) \div 2),
                 y |-> 0,
                 shapeIndex |-> ch.shapeIndex,
                 rotation |-> ch.rotation ]
      w1 == [w EXCEPT !.gameState.currentPiece = piece]
  IN  IF isCollision(piece, w1.gameState.board, 0, 0)
      THEN endGame(w1)
      ELSE w1

\* movePiece committing the horizontal offset before it tests the move.
movePieceEarlyX(w, dx, dy) ==
  LET piece == w.gameState.currentPiece
      shifted == [w EXCEPT !.gameState.currentPiece.x = @ + dx]
  IN  IF piece = NULL \/ ~validatePiece(piece)
      THEN [w |-> w, ret |-> FALSE]
      ELSE IF ~isCollision(piece, w.gameState.board, dx, dy)
           THEN [ w |-> [shifted EXCEPT !.gameState.currentPiece.y = @ + dy],
                  ret |-> TRUE ]
           ELSE [w |-> shifted, ret |-> FALSE]

\* movePiece: the world it leaves and the value it returns.
movePiece(w, dx, dy) ==
  LET piece == w.gameState.currentPiece
  IN  IF piece = NULL \/ ~validatePiece(piece)
      THEN [w |-> w, ret |-> FALSE]
      ELSE IF ~isCollision(piece, w.gameState.board, dx, dy)
           THEN [ w |-> [w EXCEPT !.gameState.currentPiece.x = @ + dx,
                                  !.gameState.currentPiece.y = @ + dy],
                  ret |-> TRUE ]
           ELSE [w |-> w, ret |-> FALSE]

\* rotatePiece installing the next rotation index and leaving the matrix.
rotatePieceIndexOnly(w) ==
  LET piece == w.gameState.currentPiece
  IN  IF piece = NULL \/ ~validatePiece(piece)
      THEN w
      ELSE LET shapes == SHAPES[piece.shapeIndex + 1]
               newRotation == (piece.rotation + 1) % Len(shapes)
               newShape == shapes[newRotation + 1]
               testPiece == [piece EXCEPT !.shape = newShape,
                                          !.rotation = newRotation]
           IN  IF ~isCollision(testPiece, w.gameState.board, 0, 0)
               THEN [w EXCEPT !.gameState.currentPiece.rotation = newRotation]
               ELSE w

\* rotatePiece installing the next rotation without testing it for collision.
rotatePieceUnchecked(w) ==
  LET piece == w.gameState.currentPiece
  IN  IF piece = NULL \/ ~validatePiece(piece)
      THEN w
      ELSE LET shapes == SHAPES[piece.shapeIndex + 1]
               newRotation == (piece.rotation + 1) % Len(shapes)
               newShape == shapes[newRotation + 1]
               testPiece == [piece EXCEPT !.shape = newShape,
                                          !.rotation = newRotation]
           IN  [w EXCEPT !.gameState.currentPiece = testPiece]

rotatePiece(w) ==
  LET piece == w.gameState.currentPiece
  IN  IF piece = NULL \/ ~validatePiece(piece)
      THEN w
      ELSE LET shapes == SHAPES[piece.shapeIndex + 1]
               newRotation == (piece.rotation + 1) % Len(shapes)
               newShape == shapes[newRotation + 1]
               testPiece == [piece EXCEPT !.shape = newShape,
                                          !.rotation = newRotation]
           IN  IF ~isCollision(testPiece, w.gameState.board, 0, 0)
               THEN [w EXCEPT !.gameState.currentPiece = testPiece]
               ELSE w

\* mergeCells writing every cell of the matrix, occupied or not.
RECURSIVE mergeCellsWholeMatrix(_, _, _, _)
mergeCellsWholeMatrix(board, piece, row, col) ==
  IF row >= Len(piece.shape) THEN board
  ELSE IF col >= Len(piece.shape[row + 1])
       THEN mergeCellsWholeMatrix(board, piece, row + 1, 0)
  ELSE LET boardY == piece.y + row
           boardX == piece.x + col
       IN  IF /\ boardY >= 0 /\ boardY < BOARD_HEIGHT
              /\ boardX >= 0 /\ boardX < BOARD_WIDTH
           THEN mergeCellsWholeMatrix(
                  [board EXCEPT ![boardY + 1][boardX + 1] = piece.shapeIndex + 1],
                  piece, row, col + 1)
           ELSE mergeCellsWholeMatrix(board, piece, row, col + 1)

\* mergeCells writing shapeIndex + 2.
RECURSIVE mergeCellsWrongValue(_, _, _, _)
mergeCellsWrongValue(board, piece, row, col) ==
  IF row >= Len(piece.shape) THEN board
  ELSE IF col >= Len(piece.shape[row + 1])
       THEN mergeCellsWrongValue(board, piece, row + 1, 0)
  ELSE LET boardY == piece.y + row
           boardX == piece.x + col
       IN  IF /\ piece.shape[row + 1][col + 1] # 0
              /\ boardY >= 0 /\ boardY < BOARD_HEIGHT
              /\ boardX >= 0 /\ boardX < BOARD_WIDTH
           THEN mergeCellsWrongValue(
                  [board EXCEPT ![boardY + 1][boardX + 1] = piece.shapeIndex + 2],
                  piece, row, col + 1)
           ELSE mergeCellsWrongValue(board, piece, row, col + 1)

\* The two nested for loops of mergePiece, writing cell by cell in row-major
\* order from (row, col).
RECURSIVE mergeCells(_, _, _, _)
mergeCells(board, piece, row, col) ==
  IF row >= Len(piece.shape) THEN board
  ELSE IF col >= Len(piece.shape[row + 1])
       THEN mergeCells(board, piece, row + 1, 0)
  ELSE LET boardY == piece.y + row
           boardX == piece.x + col
       IN  IF /\ piece.shape[row + 1][col + 1] # 0
              /\ boardY >= 0 /\ boardY < BOARD_HEIGHT
              /\ boardX >= 0 /\ boardX < BOARD_WIDTH
           THEN mergeCells(
                  [board EXCEPT ![boardY + 1][boardX + 1] = piece.shapeIndex + 1],
                  piece, row, col + 1)
           ELSE mergeCells(board, piece, row, col + 1)

\* Array.prototype.splice(row, 1) followed by unshift(empty row).
removeRow(board, row) ==
  <<emptyRow>> \o SubSeq(board, 1, row) \o SubSeq(board, row + 2, Len(board))

\* clearScan without the re-examination of the index a row was removed at
\* (clearLines without its row++).
RECURSIVE clearScanNoRecheck(_, _, _)
clearScanNoRecheck(board, row, linesCleared) ==
  IF row < 0 THEN [board |-> board, linesCleared |-> linesCleared]
  ELSE IF \A c \in 1..Len(board[row + 1]) : board[row + 1][c] # 0
       THEN clearScanNoRecheck(removeRow(board, row), row - 1, linesCleared + 1)
       ELSE clearScanNoRecheck(board, row - 1, linesCleared)

\* The for loop of clearLines from index row downwards to 0: the board and
\* the count of removed rows it ends with.
RECURSIVE clearScan(_, _, _)
clearScan(board, row, linesCleared) ==
  IF row < 0 THEN [board |-> board, linesCleared |-> linesCleared]
  ELSE IF \A c \in 1..Len(board[row + 1]) : board[row + 1][c] # 0
       THEN clearScan(removeRow(board, row), row, linesCleared + 1)
       ELSE clearScan(board, row - 1, linesCleared)

\* levelFor without the cap at MAX_LEVEL.
levelForUncapped(lines) == (lines \div 10) + 1

\* dropIntervalFor without the floor of 100 ms.
dropIntervalForNoFloor(level) == 1000 - (level - 1) * 50

\* The level and drop interval clearLines computes from the line count.
levelFor(lines) == Min(MAX_LEVEL, (lines \div 10) + 1)

dropIntervalFor(level) == Max(100, 1000 - (level - 1) * 50)

\* clearLines scoring with the level it has just computed instead of the
\* level in effect before the clear.
clearLinesNewLevel(w) ==
  LET g == w.gameState
      scan == clearScan(g.board, BOARD_HEIGHT - 1, 0)
      n == scan.linesCleared
      lines == g.lines + n
      level == levelFor(lines)
  IN  IF n > 0
      THEN [w EXCEPT !.gameState.board = scan.board,
                     !.gameState.lines = lines,
                     !.gameState.score = g.score + n * 100 * level,
                     !.gameState.level = level,
                     !.gameState.dropInterval = dropIntervalFor(level)]
      ELSE w

\* clearLines removing the full rows without adding them to lines.
clearLinesKeepsCount(w) ==
  LET g == w.gameState
      scan == clearScan(g.board, BOARD_HEIGHT - 1, 0)
      n == scan.linesCleared
  IN  IF n > 0
      THEN [w EXCEPT !.gameState.board = scan.board,
                     !.gameState.score = g.score + n * 100 * g.level]
      ELSE w

clearLines(w) ==
  LET g == w.gameState
      scan == clearScan(g.board, BOARD_HEIGHT - 1, 0)
      n == scan.linesCleared
      lines == g.lines + n
      level == levelFor(lines)
  IN  IF n > 0
      THEN [w EXCEPT !.gameState.board = scan.board,
                     !.gameState.lines = lines,
                     !.gameState.score = g.score + n * 100 * g.level,
                     !.gameState.level = level,
                     !.gameState.dropInterval = dropIntervalFor(level)]
      ELSE w

\* The board mergePiece hands to clearLines.
mergedBoard(w) ==
  mergeCells(w.gameState.board, w.gameState.currentPiece, 0, 0)

\* mergePiece spawning the next piece without calling clearLines.
mergePieceNoClear(w, ch) ==
  LET piece == w.gameState.currentPiece
  IN  IF piece = NULL \/ ~validatePiece(piece)
      THEN spawnPiece(w, ch)
      ELSE spawnPiece([w EXCEPT !.gameState.board = mergedBoard(w)], ch)

mergePiece(w, ch) ==
  LET piece == w.gameState.currentPiece
  IN  IF piece = NULL \/ ~validatePiece(piece)
      THEN spawnPiece(w, ch)
      ELSE spawnPiece(
             clearLines([w EXCEPT !.gameState.board = mergedBoard(w)]), ch)

\* dropLoop giving up after the first successful move.
dropLoopOneRow(w, steps) ==
  LET m == movePiece(w, 0, 1)
  IN  IF m.ret
      THEN [w |-> [m.w EXCEPT !.gameState.score = @ + 1], steps |-> steps + 1]
      ELSE [w |-> m.w, steps |-> steps]

\* The while loop of hardDrop: the world and the number of successful moves.
RECURSIVE dropLoop(_, _)
dropLoop(w, steps) ==
  LET m == movePiece(w, 0, 1)
  IN  IF m.ret
      THEN dropLoop([m.w EXCEPT !.gameState.score = @ + 1], steps + 1)
      ELSE [w |-> m.w, steps |-> steps]

hardDrop(w, ch) == mergePiece(dropLoop(w, 0).w, ch)

\* pauseGame leaving the inactivity counter alone when it resumes.
pauseGameKeepsTimer(w, inactivity) ==
  LET paused == ~w.gameState.gamePaused
  IN  IF paused
      THEN IF inactivity
           THEN [w EXCEPT !.gameState.gamePaused = TRUE,
                          !.gameState.inactivityTimer = 0]
           ELSE [w EXCEPT !.gameState.gamePaused = TRUE]
      ELSE [w EXCEPT !.gameState.gamePaused = FALSE]

pauseGame(w, inactivity) ==
  LET paused == ~w.gameState.gamePaused
  IN  IF paused
      THEN IF inactivity
           THEN [w EXCEPT !.gameState.gamePaused = TRUE,
                          !.gameState.inactivityTimer = 0]
           ELSE [w EXCEPT !.gameState.gamePaused = TRUE]
      ELSE [w EXCEPT !.gameState.gamePaused = FALSE,
                     !.gameState.inactivityTimer = 0]

\* updateGameLogic resetting dropCounter only after a successful move.
updateGameLogicResetOnMove(w, deltaTime, ch) ==
  LET w1 == [w EXCEPT !.gameState.dropCounter = @ + deltaTime]
  IN  IF w1.gameState.dropCounter > w1.gameState.dropInterval
      THEN LET m == movePiece(w1, 0, 1)
           IN  IF m.ret THEN [m.w EXCEPT !.gameState.dropCounter = 0]
               ELSE mergePiece(m.w, ch)
      ELSE w1

updateGameLogic(w, deltaTime, ch) ==
  LET w1 == [w EXCEPT !.gameState.dropCounter = @ + deltaTime]
  IN  IF w1.gameState.dropCounter > w1.gameState.dropInterval
      THEN LET m == movePiece(w1, 0, 1)
               w2 == IF m.ret THEN m.w ELSE mergePiece(m.w, ch)
           IN  [w2 EXCEPT !.gameState.dropCounter = 0]
      ELSE w1

\* updateInactivityTimer pausing as a user pause does (pauseGame() without
\* the inactivity argument).
updateInactivityTimerUserPause(w, deltaTime) ==
  LET w1 == [w EXCEPT !.gameState.inactivityTimer = @ + deltaTime]
  IN  IF w1.gameState.inactivityTimer > MAX_INACTIVITY
      THEN pauseGame(w1, FALSE)
      ELSE w1

updateInactivityTimer(w, deltaTime) ==
  LET w1 == [w EXCEPT !.gameState.inactivityTimer = @ + deltaTime]
  IN  IF w1.gameState.inactivityTimer > MAX_INACTIVITY
      THEN pauseGame(w1, TRUE)
      ELSE w1

\* gameLoopBody updating the game whether it is paused or not.
gameLoopBodyIgnoresPause(w, deltaTime, ch) ==
  updateInactivityTimer(updateGameLogic(w, deltaTime, ch), deltaTime)

\* The part of gameLoop between its early return and its rescheduling.
gameLoopBody(w, deltaTime, ch) ==
  IF ~w.gameState.gamePaused
  THEN updateInactivityTimer(updateGameLogic(w, deltaTime, ch), deltaTime)
  ELSE w

\* ------------------------------------------------------------------------
\* Scheduled callbacks

\* TetrisGame.timers with nothing pending: no delayed restart
\* (handleCriticalError) and no delayed removal of a notice
\* (showErrorMessage).
NoTimers == [restart |-> 0, notice |-> 0]

\* cleanup() clearing the delayed restarts only.
clearTimersRestartOnly(pending) == [pending EXCEPT !.restart = 0]

\* cleanup(): clearTimeout for every timer of TetrisGame.timers.
clearTimers(pending) == NoTimers

\* cleanup() leaving the requested frame pending.
cancelFrameLeavesPending(handle, pending) == pending

\* cleanup(): cancelAnimationFrame(animationId) when animationId holds a
\* handle; the number of gameLoop callbacks still pending.
cancelFrame(handle, pending) == IF handle THEN pending - 1 ELSE pending

\* ------------------------------------------------------------------------
\* State

VARIABLES
  gameState,    \* TetrisGame.gameState
  storage,      \* localStorage item 'tetrisHighScore'
  errorCount,   \* TetrisGame.errorCount
  timers,       \* pending timeouts of TetrisGame.timers, by what they will do
  animationId,  \* TRUE when TetrisGame.animationId holds a handle (not null)
  rafPending,   \* number of gameLoop callbacks requested and not yet run
  lastTime,     \* TetrisGame.lastTime (undefined reads as 0)
  clock,        \* the animation clock: the timestamp of the latest frame
  listening,    \* TRUE while InputHandler's listeners are registered
  hidden,       \* document.hidden
  focused,      \* TRUE while the window has the focus
  merged,       \* pieces merged since the session started
  lastOp        \* history: the handler that ran last and what it did

vars == << gameState, storage, errorCount, timers, animationId, rafPending, lastTime,
           clock, listening, hidden, focused,
           merged, lastOp >>

World == [gameState |-> gameState, storage |-> storage]

\* History record of a handler or call that merged nothing: its name, its
\* arguments and the value it returned.
Op(name, args, ret) ==
  [ op |-> name, args |-> args, ret |-> ret, merged |-> FALSE, steps |-> 0,
    landed |-> NULL, mergedBoard |-> <<>>, cleared |-> 0 ]

\* History record of a handler that called mergePiece in world w, after
\* `steps` successful moves down: the board mergePiece was called on, the
\* piece as it landed, the board as mergePiece handed it to clearLines, and
\* the number of rows clearLines removed.
OpMerge(name, w, steps) ==
  [ op |-> name, args |-> <<w.gameState.board>>, ret |-> FALSE, merged |-> TRUE,
    steps |-> steps,
    landed |-> w.gameState.currentPiece,
    mergedBoard |-> mergedBoard(w),
    cleared |-> clearScan(mergedBoard(w), BOARD_HEIGHT - 1, 0).linesCleared ]

\* The bound on the pieces of a session (see MaxPieces).
Playing(maxPieces) == merged < maxPieces \/ gameState.gameOver

\* ------------------------------------------------------------------------
\* Construction: createInitialGameState, then init() (spawnPiece, gameRunning
\* = true, gameLoop() with time 0 and lastTime undefined).
InitWith(choices) ==
  \E ch \in choices :
    LET w0 == [ gameState |-> createInitialGameState(NoItem),
                storage |-> loadHighScore(NoItem).storage ]
        w1 == spawnPiece(w0, ch)
        w2 == [w1 EXCEPT !.gameState.gameRunning = TRUE]
        w3 == gameLoopBody(w2, 0, ch)
    IN  /\ gameState = w3.gameState
        /\ storage = w3.storage
        /\ errorCount = 0
        /\ timers = NoTimers
        /\ animationId = TRUE
        /\ rafPending = 1
        /\ lastTime = 0
        /\ clock = 0
        /\ listening = TRUE
        /\ hidden = FALSE
        /\ focused = TRUE
        /\ merged = 0
        /\ lastOp = Op("init", <<>>, FALSE)

\* gameLoop running its body on a session that is over.
loopStoppedOnlyWhenNotRunning(w) == ~w.gameState.gameRunning /\ ~w.gameState.gameOver

\* The test gameLoop starts with: TRUE when it returns without updating or
\* rescheduling.
loopStopped(w) == ~w.gameState.gameRunning \/ w.gameState.gameOver

\* ------------------------------------------------------------------------
\* The animation frame callback: gameLoop(time), time being the clock after
\* it advanced by one of the intervals in deltas.
Tick(choices, maxPieces, deltas) ==
  /\ rafPending > 0
  /\ Playing(maxPieces)
  /\ \E d \in deltas :
       /\ clock + d <= MaxTime
       /\ clock' = clock + d
       /\ IF loopStopped(World)
          THEN /\ animationId' = FALSE
               /\ rafPending' = rafPending - 1
               /\ lastOp' = Op("tick", <<d>>, FALSE)
               /\ UNCHANGED << gameState, storage, lastTime, merged >>
          ELSE LET deltaTime == clock' - lastTime
                   w == World
                   w1 == [w EXCEPT !.gameState.dropCounter = @ + deltaTime]
                   due == /\ ~gameState.gamePaused
                          /\ w1.gameState.dropCounter > w1.gameState.dropInterval
                   m == movePiece(w1, 0, 1)
                   lands == due /\ ~m.ret
               IN  /\ lastTime' = clock'
                   /\ animationId' = TRUE
                   /\ rafPending' = rafPending
                   /\ merged' = IF lands THEN merged + 1 ELSE merged
                   /\ lastOp' = IF lands THEN OpMerge("tick", m.w, 0)
                                ELSE Op("tick", <<d>>, due)
                   /\ \E ch \in IF lands THEN choices
                                ELSE {CHOOSE c \in choices : TRUE} :
                        LET r == gameLoopBody(w, deltaTime, ch)
                        IN  /\ gameState' = r.gameState
                            /\ storage' = r.storage
  /\ UNCHANGED << errorCount, timers, listening, hidden, focused >>

\* ------------------------------------------------------------------------
\* restart(): cleanup() (cancels the pending frame, clears the timers of
\* pending, removes the input listeners), createInitialGameState(),
\* spawnPiece(), gameRunning = true, gameLoop() with time 0.  pending is
\* what TetrisGame.timers still holds unexpired when restart() is entered.
Restart(name, ch, pending) ==
  LET pendingAfterCancel == cancelFrame(animationId, rafPending)
      w0 == [ gameState |-> createInitialGameState(storage),
              storage |-> loadHighScore(storage).storage ]
      w1 == spawnPiece(w0, ch)
      w2 == [w1 EXCEPT !.gameState.gameRunning = TRUE]
      deltaTime == 0 - lastTime
      w3 == gameLoopBody(w2, deltaTime, ch)
  IN  /\ gameState' = w3.gameState
      /\ storage' = w3.storage
      /\ errorCount' = 0
      /\ timers' = clearTimers(pending)
      /\ animationId' = TRUE
      /\ rafPending' = pendingAfterCancel + 1
      /\ lastTime' = 0
      /\ listening' = FALSE
      /\ merged' = 0
      /\ lastOp' = Op(name, <<pending, rafPending>>, TRUE)
      /\ UNCHANGED << clock, hidden, focused >>

\* ------------------------------------------------------------------------
\* Key presses: InputHandler.handleKeyDown -> processKeyInput(e).  The
\* repeat suppression and the debounce of handleKeyDown only withhold
\* presses; a press that reaches processKeyInput is what is modelled.

\* TRUE when processKeyInput reaches its switch statement.
keyAccepted ==
  /\ ~gameState.gameOver
  /\ ~gameState.gamePaused
  /\ gameState.currentPiece # NULL
  /\ gameState.gameRunning

\* processKeyInput resetting the inactivity timer before the game-over check.
keyPreambleBeforeOverCheck(w, movementKey) ==
  IF movementKey
  THEN [w EXCEPT !.gameState.inactivityTimer = 0]
  ELSE w

\* processKeyInput up to the pause check: the arrow keys and the space bar
\* reset the inactivity timer unless the game is over.
keyPreamble(w, movementKey) ==
  IF ~w.gameState.gameOver /\ movementKey
  THEN [w EXCEPT !.gameState.inactivityTimer = 0]
  ELSE w

KeyMove(name, dx, dy, maxPieces) ==
  /\ listening
  /\ Playing(maxPieces)
  /\ LET w == keyPreamble(World, TRUE)
         m == movePiece(w, dx, dy)
         r == IF ~keyAccepted THEN w
              ELSE IF m.ret /\ name = "ArrowDown"
                   THEN [m.w EXCEPT !.gameState.score = @ + 1]
                   ELSE m.w
     IN  /\ gameState' = r.gameState
         /\ storage' = r.storage
         /\ lastOp' = Op(name, <<dx, dy>>, keyAccepted /\ m.ret)
  /\ UNCHANGED << errorCount, timers, animationId, rafPending, lastTime, clock,
                  listening, hidden, focused, merged >>

KeyArrowLeft(maxPieces) == KeyMove("ArrowLeft", -1, 0, maxPieces)

KeyArrowRight(maxPieces) == KeyMove("ArrowRight", 1, 0, maxPieces)

KeyArrowDown(maxPieces) == KeyMove("ArrowDown", 0, 1, maxPieces)

KeyArrowUp(maxPieces) ==
  /\ listening
  /\ Playing(maxPieces)
  /\ LET w == keyPreamble(World, TRUE)
         r == IF keyAccepted THEN rotatePiece(w) ELSE w
     IN  /\ gameState' = r.gameState
         /\ storage' = r.storage
         /\ lastOp' = Op("ArrowUp", <<>>, keyAccepted)
  /\ UNCHANGED << errorCount, timers, animationId, rafPending, lastTime, clock,
                  listening, hidden, focused, merged >>

KeySpace(choices, maxPieces) ==
  /\ listening
  /\ Playing(maxPieces)
  /\ LET w == keyPreamble(World, TRUE)
         d == dropLoop(w, 0)
     IN  IF keyAccepted
         THEN /\ \E ch \in choices :
                   LET r == hardDrop(w, ch)
                   IN  /\ gameState' = r.gameState
                       /\ storage' = r.storage
              /\ merged' = merged + 1
              /\ lastOp' = OpMerge(" ", d.w, d.steps)
         ELSE /\ gameState' = w.gameState
              /\ storage' = w.storage
              /\ merged' = merged
              /\ lastOp' = Op(" ", <<>>, FALSE)
  /\ UNCHANGED << errorCount, timers, animationId, rafPending, lastTime, clock,
                  listening, hidden, focused >>

KeyP(maxPieces) ==
  /\ listening
  /\ Playing(maxPieces)
  /\ LET w == World
         toggles == ~gameState.gameOver /\ (gameState.gamePaused \/ keyAccepted)
         r == IF toggles THEN pauseGame(w, FALSE) ELSE w
     IN  /\ gameState' = r.gameState
         /\ storage' = r.storage
         /\ lastOp' = Op("p", <<>>, toggles)
  /\ UNCHANGED << errorCount, timers, animationId, rafPending, lastTime, clock,
                  listening, hidden, focused, merged >>

KeyR(choices, maxPieces) ==
  /\ listening
  /\ Playing(maxPieces)
  /\ IF gameState.gameOver \/ keyAccepted
     THEN \E ch \in choices : Restart("r", ch, timers)
     ELSE /\ lastOp' = Op("r", <<>>, FALSE)
          /\ UNCHANGED << gameState, storage, errorCount, timers, animationId,
                          rafPending, lastTime, clock, listening, hidden, focused, merged >>

\* ------------------------------------------------------------------------
\* Window and document events: InputHandler.handleBlur, handleFocus and
\* handleVisibilityChange, registered by bindEvents and removed by
\* InputHandler.cleanup().

\* The window loses the focus: handleBlur.
Blur(maxPieces) ==
  /\ listening
  /\ focused
  /\ Playing(maxPieces)
  /\ LET calls == gameState.gameRunning /\ ~gameState.gameOver
         r == IF calls THEN pauseGame(World, FALSE) ELSE World
     IN  /\ gameState' = r.gameState
         /\ storage' = r.storage
         /\ lastOp' = Op("blur", <<>>, calls)
  /\ focused' = FALSE
  /\ UNCHANGED << errorCount, timers, animationId, rafPending, lastTime, clock,
                  listening, hidden, merged >>

\* The window gains the focus: handleFocus.
Focus(maxPieces) ==
  /\ listening
  /\ ~focused
  /\ Playing(maxPieces)
  /\ gameState' = [gameState EXCEPT !.inactivityTimer = 0]
  /\ lastOp' = Op("focus", <<>>, TRUE)
  /\ focused' = TRUE
  /\ UNCHANGED << storage, errorCount, timers, animationId, rafPending,
                  lastTime, clock, listening, hidden, merged >>

\* The page is hidden or shown again: document.hidden changes, then
\* handleVisibilityChange runs.
VisibilityChange(maxPieces) ==
  /\ listening
  /\ Playing(maxPieces)
  /\ hidden' = ~hidden
  /\ LET calls == hidden' /\ gameState.gameRunning /\ ~gameState.gameOver
         r == IF calls THEN pauseGame(World, FALSE) ELSE World
     IN  /\ gameState' = r.gameState
         /\ storage' = r.storage
         /\ lastOp' = Op("visibilitychange", <<hidden'>>, calls)
  /\ UNCHANGED << errorCount, timers, animationId, rafPending, lastTime, clock,
                  listening, focused, merged >>

\* ------------------------------------------------------------------------
\* Faults: the window 'error' and 'unhandledrejection' listeners of
\* setupErrorHandling call handleGameError('Global error' / 'Unhandled
\* promise rejection', ...).  They are never removed, so they outlive
\* restart().

\* validateAndFixGameState(): the board is replaced when it has not
\* BOARD_HEIGHT rows, an invalid piece is replaced by a spawn, the numbers
\* are clamped.
validateAndFixGameState(w, ch) ==
  LET w1 == IF Len(w.gameState.board) # BOARD_HEIGHT
            THEN [w EXCEPT !.gameState.board = createBoard]
            ELSE w
      w2 == IF w1.gameState.currentPiece # NULL
               /\ ~validatePiece(w1.gameState.currentPiece)
            THEN spawnPiece(w1, ch)
            ELSE w1
  IN  [w2 EXCEPT !.gameState.score = Max(0, @),
                 !.gameState.level = Max(1, Min(MAX_LEVEL, @)),
                 !.gameState.lines = Max(0, @),
                 !.gameState.dropInterval = Max(100, @)]

\* handleCriticalError showing the notice without scheduling the restart.
handleCriticalErrorNoticeOnly(pending) ==
  [pending EXCEPT !.notice = @ + 1]

\* handleCriticalError(): showErrorMessage schedules the removal of the
\* notice (3000 ms), then the restart is scheduled (2000 ms); both handles
\* are pushed to TetrisGame.timers.
handleCriticalError(pending) ==
  [pending EXCEPT !.notice = @ + 1, !.restart = @ + 1]

\* handleGameError(context, error) for the contexts of the window
\* listeners, which attemptRecovery sends to validateAndFixGameState.
Fault(choices, maxPieces) ==
  /\ Playing(maxPieces)
  /\ errorCount < MaxFaults
  /\ errorCount' = errorCount + 1
  /\ IF errorCount' >= MAX_ERRORS
     THEN /\ timers' = handleCriticalError(timers)
          /\ UNCHANGED << gameState, storage >>
     ELSE LET r == validateAndFixGameState(World, CHOOSE c \in choices : TRUE)
          IN  /\ gameState' = r.gameState
              /\ storage' = r.storage
              /\ UNCHANGED timers
  /\ lastOp' = Op("fault", <<>>, errorCount' >= MAX_ERRORS)
  /\ UNCHANGED << animationId, rafPending, lastTime, clock, listening, hidden, focused, merged >>

\* The timeout of handleCriticalError expires: restart().  The removal of
\* a notice is due 1000 ms after the restart scheduled with it, and that
\* restart clears it, so the removal callback has no step of its own.
RestartTimerFires(choices, maxPieces) ==
  /\ timers.restart > 0
  /\ \E ch \in choices :
       Restart("restartTimer", ch, [timers EXCEPT !.restart = @ - 1])

\* ------------------------------------------------------------------------
\* The engine under frames of both intervals and every key, with the
\* shapes T, O and I (all their rotations) as the outcomes of the draws.

Choices == {ch \in AllChoices : ch.shapeIndex \in {0, 3, 6}}

Init == InitWith(Choices)

Next ==
  \/ Tick(Choices, MaxPieces, {DeltaShort, DeltaLong})
  \/ KeyArrowLeft(MaxPieces)
  \/ KeyArrowRight(MaxPieces)
  \/ KeyArrowDown(MaxPieces)
  \/ KeyArrowUp(MaxPieces)
  \/ KeySpace(Choices, MaxPieces)
  \/ KeyP(MaxPieces)
  \/ KeyR(Choices, MaxPieces)

Spec == Init /\ [][Next]_vars

\* ------------------------------------------------------------------------
\* Faults and restarts: frames, the keys that drop, pause and restart,
\* faults reported through the window listeners, and the expiry of the
\* delayed restart, with the I in both rotations as the outcome of the
\* draws.

FaultChoices == {ch \in AllChoices : ch.shapeIndex = 6}

InitFaults == InitWith(FaultChoices)

NextFaults ==
  \/ Tick(FaultChoices, MaxPieces, {DeltaShort, DeltaLong})
  \/ KeySpace(FaultChoices, MaxPieces)
  \/ KeyP(MaxPieces)
  \/ KeyR(FaultChoices, MaxPieces)
  \/ Fault(FaultChoices, MaxPieces)
  \/ RestartTimerFires(FaultChoices, MaxPieces)

SpecFaults == InitFaults /\ [][NextFaults]_vars

\* The same, with the timeout of the delayed restart expiring once it is
\* pending (setTimeout runs its callback unless the timer is cleared).
SpecFaultsFair ==
  SpecFaults /\ WF_vars(RestartTimerFires(FaultChoices, MaxPieces))

\* ------------------------------------------------------------------------
\* Focus and visibility: frames, the keys that drop, pause and restart, and
\* the window losing and gaining the focus and the page being hidden and
\* shown, with the I in both rotations as the outcome of the draws.

InitFocus == InitWith(FaultChoices)

NextFocus ==
  \/ Tick(FaultChoices, MaxPieces, {DeltaShort, DeltaLong})
  \/ KeySpace(FaultChoices, MaxPieces)
  \/ KeyP(MaxPieces)
  \/ KeyR(FaultChoices, MaxPieces)
  \/ Blur(MaxPieces)
  \/ Focus(MaxPieces)
  \/ VisibilityChange(MaxPieces)

SpecFocus == InitFocus /\ [][NextFocus]_vars

\* ------------------------------------------------------------------------
\* Play: the keys that move, turn and drop the piece, pressed before the
\* first frame is due, with all seven shapes in all their rotations.

InitPlay == InitWith(AllChoices)

NextPlay ==
  \/ KeyArrowLeft(MaxPlayPieces)
  \/ KeyArrowRight(MaxPlayPieces)
  \/ KeyArrowDown(MaxPlayPieces)
  \/ KeyArrowUp(MaxPlayPieces)
  \/ KeySpace(AllChoices, MaxPlayPieces)

SpecPlay == InitPlay /\ [][NextPlay]_vars

\* ------------------------------------------------------------------------
\* Long sessions: every draw gives the flat I, which fills a row of the
\* four-wide board by itself, so that a session clears hundreds of lines
\* and runs through every level.

DeepChoices == {ch \in AllChoices : ch.shapeIndex = 6 /\ ch.rotation = 0}

InitDeep == InitWith(DeepChoices)

NextDeep ==
  \/ KeyArrowLeft(MaxDeepPieces)
  \/ KeyArrowRight(MaxDeepPieces)
  \/ KeyArrowDown(MaxDeepPieces)
  \/ KeySpace(DeepChoices, MaxDeepPieces)
  \/ KeyR(DeepChoices, MaxDeepPieces)

SpecDeep == InitDeep /\ [][NextDeep]_vars

\* ------------------------------------------------------------------------
\* clearLines as a function of the game state it is called on: the board is
\* any stack of the rows of ClearRows, the session has cleared any of the
\* line counts of ClearLineCounts, and clearLines() is called once.

ClearRows ==
  { emptyRow,
    [c \in 1..BOARD_WIDTH |-> 1 + (c % 7)],
    [c \in 1..BOARD_WIDTH |-> 7],
    [c \in 1..BOARD_WIDTH |-> IF c = 1 THEN 0 ELSE 3],
    [c \in 1..BOARD_WIDTH |-> IF c = BOARD_WIDTH THEN 5 ELSE 0] }

ClearLineCounts == {0, 8, 19, 10 * MAX_LEVEL - 2}

\* The score of a session that cleared ln < 10 * MAX_LEVEL lines one at a
\* time with pieces that fell by gravity alone: 100 * level for each line,
\* ten lines per level.
scoreOfSingles(ln) ==
  100 * ((ln \div 10) + 1) * (5 * (ln \div 10) + (ln % 10))

InitClear ==
  \E b \in [1..BOARD_HEIGHT -> ClearRows], ln \in ClearLineCounts :
    /\ gameState = [createInitialGameState(NoItem) EXCEPT
                      !.board = b,
                      !.gameRunning = TRUE,
                      !.lines = ln,
                      !.level = levelFor(ln),
                      !.dropInterval = dropIntervalFor(levelFor(ln)),
                      !.score = scoreOfSingles(ln)]
    /\ storage = NoItem
    /\ errorCount = 0
    /\ timers = NoTimers
    /\ animationId = TRUE
    /\ rafPending = 1
    /\ lastTime = 0
    /\ clock = 0
    /\ listening = TRUE
    /\ hidden = FALSE
    /\ focused = TRUE
    /\ merged = 0
    /\ lastOp = Op("init", <<>>, FALSE)

\* clearLines() on the current state; the history keeps the state it was
\* called on and returns the count of removed rows.
CallClearLines ==
  /\ lastOp.op = "init"
  /\ LET r == clearLines(World)
     IN  /\ gameState' = r.gameState
         /\ storage' = r.storage
         /\ lastOp' = Op("clearLines", <<gameState>>,
                         clearScan(gameState.board, BOARD_HEIGHT - 1, 0).linesCleared)
  /\ UNCHANGED << errorCount, timers, animationId, rafPending, lastTime, clock,
                  listening, hidden, focused, merged >>

NextClear == CallClearLines

SpecClear == InitClear /\ [][NextClear]_vars

\* ------------------------------------------------------------------------
\* isCollision and the merge loop as functions of their inputs: any shape in
\* any rotation, anchored inside the board, next to it, or at the edge of the
\* range isCollision pre-checks, over one of three boards.

GeometryXs ==
  {-(PositionMargin + 1), -PositionMargin}
    \cup (-2..BOARD_WIDTH)
    \cup {BOARD_WIDTH + PositionMargin, BOARD_WIDTH + PositionMargin + 1}

GeometryYs ==
  {-(PositionMargin + 1), -PositionMargin}
    \cup (-3..BOARD_HEIGHT)
    \cup {BOARD_HEIGHT + PositionMargin, BOARD_HEIGHT + PositionMargin + 1}

GeometryOffsets ==
  ((-1..1) \X (-1..1))
    \cup { <<PositionMargin + 2, 0>>, <<-(PositionMargin + 2), 0>>,
           <<0, PositionMargin + 2>>, <<0, -(PositionMargin + 2)>> }

GeometryBoards ==
  { createBoard,
    [r \in 1..BOARD_HEIGHT |->
       IF r = BOARD_HEIGHT THEN [c \in 1..BOARD_WIDTH |-> IF c = 2 THEN 0 ELSE 4]
       ELSE emptyRow],
    [r \in 1..BOARD_HEIGHT |->
       [c \in 1..BOARD_WIDTH |-> IF c = 1 /\ r > 1 THEN 2 ELSE 0]] }

InitGeometry ==
  \E b \in GeometryBoards, ch \in AllChoices, px \in GeometryXs, py \in GeometryYs :
    /\ gameState = [createInitialGameState(NoItem) EXCEPT
                      !.board = b,
                      !.gameRunning = TRUE,
                      !.currentPiece =
                         [ shape |-> SHAPES[ch.shapeIndex + 1][ch.rotation + 1],
                           x |-> px, y |-> py,
                           shapeIndex |-> ch.shapeIndex,
                           rotation |-> ch.rotation ]]
    /\ storage = NoItem
    /\ errorCount = 0
    /\ timers = NoTimers
    /\ animationId = TRUE
    /\ rafPending = 1
    /\ lastTime = 0
    /\ clock = 0
    /\ listening = TRUE
    /\ hidden = FALSE
    /\ focused = TRUE
    /\ merged = 0
    /\ lastOp = Op("init", <<>>, FALSE)

\* isCollision(currentPiece, offsetX, offsetY); the history keeps the
\* offsets and the value returned.
CallIsCollision ==
  /\ lastOp.op = "init"
  /\ \E off \in GeometryOffsets :
       lastOp' = Op("isCollision", off,
                    isCollision(gameState.currentPiece, gameState.board,
                                off[1], off[2]))
  /\ UNCHANGED << gameState, storage, errorCount, timers, animationId, rafPending,
                  lastTime, clock, listening, hidden, focused, merged >>

\* mergePiece() on the current piece and board; the history keeps the
\* board and the piece it was called on and the board its merge loop left
\* for clearLines.
CallMergePiece ==
  /\ lastOp.op = "init"
  /\ \E ch \in Choices :
       LET r == mergePiece(World, ch)
       IN  /\ gameState' = r.gameState
           /\ storage' = r.storage
  /\ merged' = merged + 1
  /\ lastOp' = OpMerge("mergePiece", World, 0)
  /\ UNCHANGED << errorCount, timers, animationId, rafPending, lastTime, clock,
                  listening, hidden, focused >>

\* movePiece(dx, dy) on the current piece and board; the history keeps the
\* offsets, the game state it was called on, and the value returned.
CallMovePiece ==
  /\ lastOp.op = "init"
  /\ \E off \in GeometryOffsets :
       LET m == movePiece(World, off[1], off[2])
       IN  /\ gameState' = m.w.gameState
           /\ storage' = m.w.storage
           /\ lastOp' = Op("movePiece", <<off[1], off[2], gameState>>, m.ret)
  /\ UNCHANGED << errorCount, timers, animationId, rafPending, lastTime, clock,
                  listening, hidden, focused, merged >>

\* rotatePiece() on the current piece and board; the history keeps the game
\* state it was called on.
CallRotatePiece ==
  /\ lastOp.op = "init"
  /\ LET r == rotatePiece(World)
     IN  /\ gameState' = r.gameState
         /\ storage' = r.storage
  /\ lastOp' = Op("rotatePiece", <<gameState>>, FALSE)
  /\ UNCHANGED << errorCount, timers, animationId, rafPending, lastTime, clock,
                  listening, hidden, focused, merged >>

NextGeometry ==
  \/ CallIsCollision
  \/ CallMergePiece
  \/ CallMovePiece
  \/ CallRotatePiece

SpecGeometry == InitGeometry /\ [][NextGeometry]_vars

\* ------------------------------------------------------------------------
\* isCollision on pieces no operation of the engine builds: a matrix that is
\* empty, has an empty row or rows of different lengths, or is the T, at a
\* position whose x and y are NaN, Infinity, -Infinity or a cell of the
\* board.

MalformedShapes ==
  { <<>>,
    << <<1, 1>>, <<>> >>,
    << <<1, 1>>, <<1>> >>,
    << <<1>>, <<1, 1, 1>> >>,
    SHAPES[1][1] }

MalformedPositions == {NaN, Infinity, -Infinity, 0, 1}

InitMalformed ==
  \E b \in GeometryBoards, sh \in MalformedShapes,
     px \in MalformedPositions, py \in MalformedPositions :
    /\ gameState = [createInitialGameState(NoItem) EXCEPT
                      !.board = b,
                      !.gameRunning = TRUE,
                      !.currentPiece =
                         [ shape |-> sh, x |-> px, y |-> py,
                           shapeIndex |-> 0, rotation |-> 0 ]]
    /\ storage = NoItem
    /\ errorCount = 0
    /\ timers = NoTimers
    /\ animationId = TRUE
    /\ rafPending = 1
    /\ lastTime = 0
    /\ clock = 0
    /\ listening = TRUE
    /\ hidden = FALSE
    /\ focused = TRUE
    /\ merged = 0
    /\ lastOp = Op("init", <<>>, FALSE)

NextMalformed == CallIsCollision

SpecMalformed == InitMalformed /\ [][NextMalformed]_vars

\* ------------------------------------------------------------------------
\* Construction as a function of the configuration: new TetrisGame(config)
\* with boardWidth, boardHeight, blockSize and maxLevel each below, at and
\* above the limits of validateConfig, 0 included.

\* value || fallback for an integer value: 0 is the only falsy integer.
orDefault(value, fallback) == IF value = 0 THEN fallback ELSE value

\* validateConfig(config): the set of error messages; it throws a
\* ValidationError when the set is not empty.
validateConfig(config) ==
  { e \in {"Board width", "Board height", "Block size", "Max level"} :
      \/ e = "Board width" /\ (config.BOARD_WIDTH < 4 \/ config.BOARD_WIDTH > 50)
      \/ e = "Board height" /\ (config.BOARD_HEIGHT < 4 \/ config.BOARD_HEIGHT > 50)
      \/ e = "Block size" /\ (config.BLOCK_SIZE < 1 \/ config.BLOCK_SIZE > 100)
      \/ e = "Max level" /\ (config.MAX_LEVEL < 1 \/ config.MAX_LEVEL > 1000) }

\* The constructor up to createInitialGameState: the error it throws (""
\* for none), the CONFIG it keeps, and whether the game state was created.
TetrisGame(config) ==
  LET given == [ BOARD_WIDTH |-> orDefault(config.boardWidth, 12),
                 BOARD_HEIGHT |-> orDefault(config.boardHeight, 20),
                 BLOCK_SIZE |-> orDefault(config.blockSize, 20),
                 MAX_LEVEL |-> orDefault(config.maxLevel, 100) ]
      errors == validateConfig(given)
  IN  IF errors # {}
      THEN [threw |-> "ValidationError", CONFIG |-> given, created |-> FALSE]
      ELSE [threw |-> "", CONFIG |-> given, created |-> TRUE]

ConfigBoardSizes == {-1, 0, 3, 4, 50, 51}

ConfigBlockSizes == {-1, 0, 1, 100, 101}

ConfigMaxLevels == {-1, 0, 1, 1000, 1001}

\* Before construction there is no game state.
InitConfig ==
  /\ gameState = [created |-> FALSE]
  /\ storage = NoItem
  /\ errorCount = 0
  /\ timers = NoTimers
  /\ animationId = FALSE
  /\ rafPending = 0
  /\ lastTime = 0
  /\ clock = 0
  /\ listening = FALSE
  /\ hidden = FALSE
  /\ focused = TRUE
  /\ merged = 0
  /\ lastOp = Op("init", <<>>, FALSE)

\* new TetrisGame(config); the history keeps the configuration supplied and
\* what the constructor did with it.
CallConstructor ==
  /\ lastOp.op = "init"
  /\ \E config \in [ boardWidth : ConfigBoardSizes,
                     boardHeight : ConfigBoardSizes,
                     blockSize : ConfigBlockSizes,
                     maxLevel : ConfigMaxLevels ] :
       LET r == TetrisGame(config)
       IN  /\ gameState' = [created |-> r.created]
           /\ lastOp' = Op("constructor", <<config>>, r)
  /\ UNCHANGED << storage, errorCount, timers, animationId, rafPending,
                  lastTime, clock, listening, hidden, focused, merged >>

NextConfig == CallConstructor

SpecConfig == InitConfig /\ [][NextConfig]_vars

\* ------------------------------------------------------------------------
\* The end of a game as a function of the session it ends: spawnPiece() is
\* called once on a session that has just merged a piece, over a board that
\* is empty or holds one or two vertical I pieces, with a score below, at
\* and above the largest score the store accepts, and with a store that
\* holds nothing, 0, or a score of an earlier session.

EndGameBoards ==
  { createBoard,
    [r \in 1..BOARD_HEIGHT |->
       [c \in 1..BOARD_WIDTH |-> IF c = 3 /\ r > 1 THEN 7 ELSE 0]],
    [r \in 1..BOARD_HEIGHT |->
       [c \in 1..BOARD_WIDTH |-> IF c \in {2, 3} /\ r > 1 THEN 7 ELSE 0]] }

\* The largest score saveHighScore and loadHighScore accept.
MaxStoredScore == 999999999

\* Sessions by the lines they cleared and the score they reached: a short
\* one that scored by dropping alone, and a long one at MAX_LEVEL, whose
\* 476000 lines gave about 999390000 points (100 * level each) and whose
\* drops gave the rest.
EndGameProgress ==
  { [lines |-> 0, score |-> 0],
    [lines |-> 0, score |-> 40],
    [lines |-> 476000, score |-> MaxStoredScore],
    [lines |-> 476000, score |-> MaxStoredScore + 1] }

EndGameStores ==
  { NoItem, toString(0), toString(40), toString(MaxStoredScore) }

InitEndGame ==
  \E b \in EndGameBoards, pr \in EndGameProgress, st \in EndGameStores :
    /\ gameState = [createInitialGameState(st) EXCEPT
                      !.board = b,
                      !.gameRunning = TRUE,
                      !.lines = pr.lines,
                      !.level = levelFor(pr.lines),
                      !.dropInterval = dropIntervalFor(levelFor(pr.lines)),
                      !.score = pr.score]
    /\ storage = loadHighScore(st).storage
    /\ errorCount = 0
    /\ timers = NoTimers
    /\ animationId = TRUE
    /\ rafPending = 1
    /\ lastTime = 0
    /\ clock = 0
    /\ listening = TRUE
    /\ hidden = FALSE
    /\ focused = TRUE
    /\ merged = 0
    /\ lastOp = Op("init", <<>>, FALSE)

\* spawnPiece() on the current state, which calls endGame() when the piece
\* it installs collides; the history keeps whether it did.
CallSpawnPiece ==
  /\ lastOp.op = "init"
  /\ \E ch \in AllChoices :
       LET r == spawnPiece(World, ch)
       IN  /\ gameState' = r.gameState
           /\ storage' = r.storage
           /\ lastOp' = Op("spawnPiece", <<ch>>, r.gameState.gameOver)
  /\ UNCHANGED << errorCount, timers, animationId, rafPending, lastTime, clock,
                  listening, hidden, focused, merged >>

NextEndGame == CallSpawnPiece

SpecEndGame == InitEndGame /\ [][NextEndGame]_vars

\* ------------------------------------------------------------------------
\* The high-score store as a function of the score saved: saveHighScore(score)
\* on a store that holds nothing or an earlier score, then loadHighScore(),
\* for scores of every number of digits, at both ends of the accepted range
\* and outside it.

StoreScores ==
  { -1, 0, 1, 9, 10, 20, 99, 100, 101, 1000, 12345, 1000000,
    MaxStoredScore - 1, MaxStoredScore, MaxStoredScore + 1, 2000000000 }

InitStore ==
  \E st \in EndGameStores :
    /\ gameState = createInitialGameState(st)
    /\ storage = st
    /\ errorCount = 0
    /\ timers = NoTimers
    /\ animationId = FALSE
    /\ rafPending = 0
    /\ lastTime = 0
    /\ clock = 0
    /\ listening = TRUE
    /\ hidden = FALSE
    /\ focused = TRUE
    /\ merged = 0
    /\ lastOp = Op("init", <<>>, FALSE)

\* saveHighScore(score); the history keeps the score and the store before.
CallSaveHighScore ==
  /\ lastOp.op = "init"
  /\ \E score \in StoreScores :
       /\ storage' = saveHighScore(storage, score)
       /\ lastOp' = Op("saveHighScore", <<score, storage>>, FALSE)
  /\ UNCHANGED << gameState, errorCount, timers, animationId, rafPending,
                  lastTime, clock, listening, hidden, focused, merged >>

\* loadHighScore() after a saveHighScore(score); the history keeps the
\* arguments of the save and the score the load returned.
CallLoadHighScore ==
  /\ lastOp.op = "saveHighScore"
  /\ LET r == loadHighScore(storage)
     IN  /\ storage' = r.storage
         /\ lastOp' = Op("loadHighScore", lastOp.args, r.score)
  /\ UNCHANGED << gameState, errorCount, timers, animationId, rafPending,
                  lastTime, clock, listening, hidden, focused, merged >>

NextStore ==
  \/ CallSaveHighScore
  \/ CallLoadHighScore

SpecStore == InitStore /\ [][NextStore]_vars

\* ------------------------------------------------------------------------
\* Properties

\* A row with every cell nonzero.
RowFull(r) == \A c \in 1..Len(r) : r[c] # 0

RowNotFull(r) == ~RowFull(r)

\* The indices of the full rows of board b.
FullRows(b) == {i \in 1..Len(b) : RowFull(b[i])}

\* C1: for every board, clearLines() removes exactly the rows that were full
\* when it was called (adjacent or not), keeps the content and the relative
\* order of all other rows, inserts one empty row at the top per removed
\* row, and leaves the board with exactly BOARD_HEIGHT rows.
C1_ClearLinesRemovesExactlyFullRows ==
  lastOp.op = "clearLines" =>
    LET old == lastOp.args[1].board
        kept == SelectSeq(old, RowNotFull)
        n == Cardinality(FullRows(old))
    IN  /\ gameState.board = [i \in 1..n |-> emptyRow] \o kept
        /\ Len(gameState.board) = BOARD_HEIGHT
        /\ lastOp.ret = n

\* clearLines() ran on a board with two adjacent full rows and, apart from
\* them, another full row, with rows that are not full in between and below.
C1_Witness ==
  /\ lastOp.op = "clearLines"
  /\ LET old == lastOp.args[1].board
     IN  /\ FullRows(old) = {1, 3, 4}
         /\ old[2] # emptyRow
         /\ old[5] # emptyRow
         /\ old[2] # old[5]

\* The occupied cells <<row, col>> of a piece's matrix.
OccupiedCells(piece) ==
  { cell \in (0..(Len(piece.shape) - 1)) \X (0..3) :
      /\ cell[2] < Len(piece.shape[cell[1] + 1])
      /\ piece.shape[cell[1] + 1][cell[2] + 1] # 0 }

\* The occupied cell maps, at the offset, left or right of the board, below
\* it, or onto an occupied board cell of a row >= 0.
CellBlocked(piece, board, offsetX, offsetY, cell) ==
  LET boardX == piece.x + cell[2] + offsetX
      boardY == piece.y + cell[1] + offsetY
  IN  \/ boardX < 0
      \/ boardX >= BOARD_WIDTH
      \/ boardY >= BOARD_HEIGHT
      \/ (boardY >= 0 /\ board[boardY + 1][boardX + 1] # 0)

\* The piece is anchored within the range isCollision pre-checks.
WithinMargin(piece) ==
  /\ piece.x >= -PositionMargin
  /\ piece.x <= BOARD_WIDTH + PositionMargin
  /\ piece.y >= -PositionMargin
  /\ piece.y <= BOARD_HEIGHT + PositionMargin

\* C2 as stated: for every well-formed piece, board and offset, isCollision
\* returns true if and only if some occupied cell maps left or right of the
\* board, below it, or onto an occupied board cell of a row >= 0.
C2_IsCollisionIffCellBlocked ==
  lastOp.op = "isCollision" =>
    LET piece == gameState.currentPiece
    IN  lastOp.ret <=>
          \E cell \in OccupiedCells(piece) :
             CellBlocked(piece, gameState.board, lastOp.args[1], lastOp.args[2], cell)

\* C2 restated: for a well-formed piece anchored within PositionMargin of
\* the board (x in [-10, width + 10], y in [-10, height + 10]) isCollision
\* returns true if and only if some occupied cell maps left or right of the
\* board, below it, or onto an occupied board cell of a row >= 0, so that
\* occupied cells above the top row inside the left/right bounds never make
\* it return true; for a piece anchored outside that range it returns true
\* whatever the offset.
C2_IsCollisionIffCellBlockedWithinMargin ==
  lastOp.op = "isCollision" =>
    LET piece == gameState.currentPiece
    IN  lastOp.ret <=>
          \/ ~WithinMargin(piece)
          \/ \E cell \in OccupiedCells(piece) :
                CellBlocked(piece, gameState.board, lastOp.args[1], lastOp.args[2], cell)

\* isCollision returned false for a piece with an occupied cell above the
\* top row and another one inside a board that holds cells.
C2_Witness ==
  /\ lastOp.op = "isCollision"
  /\ ~lastOp.ret
  /\ gameState.board # createBoard
  /\ \E cell \in OccupiedCells(gameState.currentPiece) :
       gameState.currentPiece.y + cell[1] + lastOp.args[2] < 0
  /\ \E cell \in OccupiedCells(gameState.currentPiece) :
       gameState.currentPiece.y + cell[1] + lastOp.args[2] >= 0

\* isCollision returned true for a piece anchored outside the pre-checked
\* range although no occupied cell is blocked at the offset.
C2_WitnessOutsideMargin ==
  /\ lastOp.op = "isCollision"
  /\ lastOp.ret
  /\ ~WithinMargin(gameState.currentPiece)
  /\ \A cell \in OccupiedCells(gameState.currentPiece) :
       ~CellBlocked(gameState.currentPiece, gameState.board,
                    lastOp.args[1], lastOp.args[2], cell)

\* C3: movePiece(dx, dy) on an existing piece: when the piece does not
\* collide at offset (dx, dy) it adds exactly (dx, dy) to the piece position
\* and returns true; when it collides it returns false and leaves the piece's
\* x, y, rotation and matrix unchanged; in both cases the board, score, level
\* and lines are unchanged.
C3_MovePieceEffectAndFrame ==
  lastOp.op = "movePiece" =>
    LET pre == lastOp.args[3]
        piece == pre.currentPiece
        dx == lastOp.args[1]
        dy == lastOp.args[2]
    IN  /\ IF ~isCollision(piece, pre.board, dx, dy)
           THEN /\ lastOp.ret
                /\ gameState.currentPiece =
                     [piece EXCEPT !.x = piece.x + dx, !.y = piece.y + dy]
           ELSE /\ ~lastOp.ret
                /\ gameState.currentPiece = piece
        /\ gameState.board = pre.board
        /\ gameState.score = pre.score
        /\ gameState.level = pre.level
        /\ gameState.lines = pre.lines

\* movePiece(dx, dy) with dx # 0 and dy # 0 returned false for a piece that,
\* anchored inside the pre-checked range, met an occupied board cell.
C3_Witness ==
  /\ lastOp.op = "movePiece"
  /\ ~lastOp.ret
  /\ lastOp.args[1] # 0
  /\ lastOp.args[2] # 0
  /\ WithinMargin(lastOp.args[3].currentPiece)
  /\ \A cell \in OccupiedCells(lastOp.args[3].currentPiece) :
       LET boardX == lastOp.args[3].currentPiece.x + cell[2] + lastOp.args[1]
           boardY == lastOp.args[3].currentPiece.y + cell[1] + lastOp.args[2]
       IN  boardX \in 0..(BOARD_WIDTH - 1) /\ boardY \in 0..(BOARD_HEIGHT - 1)

\* movePiece(dx, dy) with dx # 0 and dy # 0 moved the piece.
C3_WitnessMoved ==
  /\ lastOp.op = "movePiece"
  /\ lastOp.ret
  /\ lastOp.args[1] # 0
  /\ lastOp.args[2] # 0
  /\ lastOp.args[3].board # createBoard

\* C4: rotatePiece() leaves the piece completely unchanged when the next
\* rotation state (rotation + 1) mod rotationCount collides at the current
\* position; otherwise it installs exactly that next rotation index together
\* with its matrix and keeps x, y and shapeIndex unchanged.
C4_RotateAllOrNothing ==
  lastOp.op = "rotatePiece" =>
    LET pre == lastOp.args[1]
        piece == pre.currentPiece
        rotationCount == Len(SHAPES[piece.shapeIndex + 1])
        next == (piece.rotation + 1) % rotationCount
        candidate == [ shape |-> SHAPES[piece.shapeIndex + 1][next + 1],
                       x |-> piece.x,
                       y |-> piece.y,
                       shapeIndex |-> piece.shapeIndex,
                       rotation |-> next ]
    IN  /\ gameState.currentPiece =
             IF isCollision(candidate, pre.board, 0, 0) THEN piece ELSE candidate
        /\ gameState.board = pre.board

\* rotatePiece() turned a piece of four rotation states from its last state
\* to its first, next to occupied board cells.
C4_Witness ==
  /\ lastOp.op = "rotatePiece"
  /\ lastOp.args[1].currentPiece.rotation = 3
  /\ gameState.currentPiece.rotation = 0
  /\ gameState.currentPiece.shape # lastOp.args[1].currentPiece.shape
  /\ gameState.board # createBoard

\* rotatePiece() left alone a piece that lies inside an empty part of the
\* board and whose next rotation state does not fit.
C4_WitnessRefused ==
  /\ lastOp.op = "rotatePiece"
  /\ ~isCollision(lastOp.args[1].currentPiece, lastOp.args[1].board, 0, 0)
  /\ Len(SHAPES[lastOp.args[1].currentPiece.shapeIndex + 1]) > 1
  /\ gameState.currentPiece = lastOp.args[1].currentPiece

\* The piece at row y.
PieceAt(piece, y) == [piece EXCEPT !.y = y]

\* The rows at or below the piece at which it does not collide.
FreeRows(piece, board) ==
  {y \in piece.y..BOARD_HEIGHT : ~isCollision(PieceAt(piece, y), board, 0, 0)}

\* The lowest row at which the piece does not collide.
LowestFreeRow(piece, board) ==
  CHOOSE y \in FreeRows(piece, board) :
    \A z \in FreeRows(piece, board) : z <= y

\* The row at which successive descents of one row from the piece's row are
\* first blocked.
FirstBlockedRow(piece, board) ==
  CHOOSE y \in piece.y..BOARD_HEIGHT :
    /\ \A z \in piece.y..y : z \in FreeRows(piece, board)
    /\ isCollision(PieceAt(piece, y), board, 0, 1)

\* The step is a hard drop of the piece to row y: the piece is merged at row
\* y with x, rotation and matrix unchanged, full rows are cleared, and the
\* score grows by one point per row descended and by the points of the clear.
HardDropLandsAt(y) ==
  LET piece == gameState.currentPiece
      scan == clearScan(mergeCells(gameState.board, PieceAt(piece, y), 0, 0),
                        BOARD_HEIGHT - 1, 0)
  IN  /\ lastOp'.landed = PieceAt(piece, y)
      /\ isCollision(PieceAt(piece, y), gameState.board, 0, 1)
      /\ gameState'.board = scan.board
      /\ gameState'.score = gameState.score + (y - piece.y)
                              + scan.linesCleared * 100 * gameState.level

\* C5 as stated: hardDrop() on a running session moves the piece straight
\* down to the lowest position at which it does not collide, adds exactly one
\* point per row descended, and merges the piece at that position, a position
\* from which a further move(0, +1) fails.
C5_HardDropLowestFreePosition ==
  [][ (lastOp'.op = " " /\ lastOp'.merged) =>
        HardDropLandsAt(LowestFreeRow(gameState.currentPiece, gameState.board))
    ]_vars

\* C5 restated: hardDrop() on a running session moves the piece straight
\* down to the first position at which a further move(0, +1) fails (the
\* lowest position it reaches by successive descents of one row, which under
\* an overhang is not the lowest position at which it does not collide), adds
\* exactly one point per row descended, and merges the piece at that
\* position.
C5_HardDropFirstBlockedPosition ==
  [][ (lastOp'.op = " " /\ lastOp'.merged) =>
        HardDropLandsAt(FirstBlockedRow(gameState.currentPiece, gameState.board))
    ]_vars

\* A hard drop descended at least one row and merged the piece on top of an
\* overhang: lower down there is a row at which the piece does not collide.
C5_Witness ==
  /\ lastOp.op = " "
  /\ lastOp.merged
  /\ lastOp.steps >= 1
  /\ \E y \in (lastOp.landed.y + 1)..BOARD_HEIGHT :
       ~isCollision(PieceAt(lastOp.landed, y), lastOp.args[1], 0, 0)

\* A hard drop descended to the floor and completed a row.
C5_WitnessFloor ==
  /\ lastOp.op = " "
  /\ lastOp.merged
  /\ lastOp.steps >= 3
  /\ lastOp.cleared >= 1

\* C6: mergePiece() writes shapeIndex + 1 into exactly the board cells
\* covered by occupied cells of the piece that lie inside the board, writes
\* nothing for cells above the top row (the board keeps its rows), and
\* changes no other board cell before line clearing runs.
C6_MergeWritesExactlyCoveredCells ==
  lastOp.op = "mergePiece" =>
    LET piece == lastOp.landed
        before == lastOp.args[1]
        after == lastOp.mergedBoard
    IN  /\ DOMAIN after = 1..BOARD_HEIGHT
        /\ \A r \in 1..BOARD_HEIGHT :
             /\ DOMAIN after[r] = 1..BOARD_WIDTH
             /\ \A c \in 1..BOARD_WIDTH :
                  after[r][c] =
                    IF \E cell \in OccupiedCells(piece) :
                         /\ piece.y + cell[1] = r - 1
                         /\ piece.x + cell[2] = c - 1
                    THEN piece.shapeIndex + 1
                    ELSE before[r][c]

\* mergePiece() ran on a piece with an occupied cell above the top row, an
\* occupied cell inside the board and an unoccupied matrix cell over an
\* occupied board cell.
C6_Witness ==
  /\ lastOp.op = "mergePiece"
  /\ LET piece == lastOp.landed
         before == lastOp.args[1]
     IN  /\ \E cell \in OccupiedCells(piece) :
              /\ piece.y + cell[1] < 0
              /\ piece.x + cell[2] \in 0..(BOARD_WIDTH - 1)
         /\ \E cell \in OccupiedCells(piece) :
              /\ piece.y + cell[1] \in 0..(BOARD_HEIGHT - 1)
              /\ piece.x + cell[2] \in 0..(BOARD_WIDTH - 1)
         /\ \E row \in 0..(Len(piece.shape) - 1), col \in 0..(Len(piece.shape[1]) - 1) :
              /\ piece.shape[row + 1][col + 1] = 0
              /\ piece.y + row \in 0..(BOARD_HEIGHT - 1)
              /\ piece.x + col \in 0..(BOARD_WIDTH - 1)
              /\ before[piece.y + row + 1][piece.x + col + 1] # 0
              /\ lastOp.mergedBoard[piece.y + row + 1][piece.x + col + 1]
                   = before[piece.y + row + 1][piece.x + col + 1]

\* C7: when n >= 1 rows are full, clearLines increases lines by exactly n
\* and score by exactly n * 100 * level, level being the level in effect
\* before this clear; when no row is full, score, lines, level and
\* dropInterval are unchanged.
C7_ClearLinesScoring ==
  lastOp.op = "clearLines" =>
    LET pre == lastOp.args[1]
        n == Cardinality(FullRows(pre.board))
    IN  IF n >= 1
        THEN /\ gameState.lines = pre.lines + n
             /\ gameState.score = pre.score + n * 100 * pre.level
        ELSE /\ gameState.score = pre.score
             /\ gameState.lines = pre.lines
             /\ gameState.level = pre.level
             /\ gameState.dropInterval = pre.dropInterval

\* clearLines() removed three rows at level 2 and the clear raised the level.
C7_Witness ==
  /\ lastOp.op = "clearLines"
  /\ lastOp.ret = 3
  /\ lastOp.args[1].level = 2
  /\ gameState.level = 3
  /\ gameState.score = lastOp.args[1].score + 600

\* clearLines() ran on a board without a full row.
C7_WitnessNoFullRow ==
  /\ lastOp.op = "clearLines"
  /\ lastOp.ret = 0
  /\ lastOp.args[1].board # createBoard

\* The step is a restart: it starts a new session.
RestartStep == lastOp'.op \in {"r", "restartTimer"} /\ lastOp'.ret

\* C8: within a session (between restarts) level never decreases, stays in
\* [1, MAX_LEVEL], and in every reachable state equals
\* min(MAX_LEVEL, floor(lines / 10) + 1).
C8_LevelFollowsLines ==
  /\ [](/\ gameState.level >= 1
        /\ gameState.level <= MAX_LEVEL
        /\ gameState.level = Min(MAX_LEVEL, (gameState.lines \div 10) + 1))
  /\ [][~RestartStep => gameState'.level >= gameState.level]_vars

\* A clear raised the level to MAX_LEVEL, and later the session has cleared
\* enough lines for the level after MAX_LEVEL.
C8_Witness ==
  /\ gameState.level = MAX_LEVEL
  /\ gameState.lines >= 10 * MAX_LEVEL
  /\ lastOp.cleared >= 1

\* C9: within a session dropInterval never increases, is never below 100,
\* and in every reachable state equals max(100, 1000 - (level - 1) * 50).
C9_DropIntervalFollowsLevel ==
  /\ [](/\ gameState.dropInterval >= 100
        /\ gameState.dropInterval = Max(100, 1000 - (gameState.level - 1) * 50))
  /\ [][~RestartStep => gameState'.dropInterval <= gameState.dropInterval]_vars

\* A clear took the session to a level whose interval 1000 - (level - 1) * 50
\* is below 100, and the drop interval is 100.
C9_Witness ==
  /\ 1000 - (gameState.level - 1) * 50 < 100
  /\ gameState.dropInterval = 100
  /\ lastOp.cleared >= 1

\* C10: in every reachable state the board has exactly BOARD_HEIGHT rows,
\* every row has exactly BOARD_WIDTH cells, and every cell value is in
\* [0, 7], after any sequence of spawn, move, rotate, hard drop, tick, pause
\* and restart.
C10_BoardShape ==
  /\ DOMAIN gameState.board = 1..BOARD_HEIGHT
  /\ \A r \in 1..BOARD_HEIGHT :
       /\ DOMAIN gameState.board[r] = 1..BOARD_WIDTH
       /\ \A c \in 1..BOARD_WIDTH : gameState.board[r][c] \in 0..7

\* A frame merged the piece of the highest shape index into the board, and
\* the board holds its cells.
C10_Witness ==
  /\ lastOp.op = "tick"
  /\ lastOp.merged
  /\ lastOp.landed.shapeIndex = 6
  /\ \E r \in 1..BOARD_HEIGHT, c \in 1..BOARD_WIDTH : gameState.board[r][c] = 7

\* C11: in every reachable state gameOver implies not gameRunning, including
\* across init() and restart(), which set gameRunning = true after calling
\* spawnPiece().
C11_OverImpliesNotRunning ==
  gameState.gameOver => ~gameState.gameRunning

\* A blocked spawn has ended the session.
C11_Witness ==
  /\ gameState.gameOver
  /\ ~gameState.gameRunning
  /\ lastOp.merged

\* C12 as stated: a current piece exists if and only if the session is
\* running and not over; currentPiece is absent in every GameOver state.
C12_PieceIffRunningNotOver ==
  (gameState.currentPiece # NULL)
    <=> (gameState.gameRunning /\ ~gameState.gameOver)

\* The session is over and the piece whose spawn was blocked is installed,
\* overlapping occupied board cells.
C12_PieceInstalledWhenOver ==
  /\ gameState.gameOver
  /\ gameState.currentPiece # NULL
  /\ \E cell \in OccupiedCells(gameState.currentPiece) :
       gameState.board[gameState.currentPiece.y + cell[1] + 1]
                      [gameState.currentPiece.x + cell[2] + 1] # 0

\* C13: whenever spawnPiece() produces a piece that collides at zero offset
\* with the board, the same call puts the session into GameOver (gameOver =
\* true, gameRunning = false); whenever the spawned piece does not collide,
\* the session's running/over flags are unchanged.  (The spawns observed are
\* those that follow a merge, on the board the clear left.)
C13_BlockedSpawnEndsGame ==
  [][ lastOp'.merged =>
        IF isCollision(gameState'.currentPiece, gameState'.board, 0, 0)
        THEN gameState'.gameOver /\ ~gameState'.gameRunning
        ELSE /\ gameState'.gameOver = gameState.gameOver
             /\ gameState'.gameRunning = gameState.gameRunning
    ]_vars

\* A frame merged the piece and the spawn that followed was blocked.
C13_Witness ==
  /\ lastOp.op = "tick"
  /\ lastOp.merged
  /\ isCollision(gameState.currentPiece, gameState.board, 0, 0)
  /\ gameState.gameOver

\* The step is a frame of a running, unpaused session.
ActiveTick ==
  /\ lastOp'.op = "tick"
  /\ gameState.gameRunning
  /\ ~gameState.gameOver
  /\ ~gameState.gamePaused

\* The time the frame of this step measures since the frame before.
TickDelta == clock' - lastTime

\* The piece is one a spawn has just installed: a matrix of its shape at the
\* top row, centred.
FreshlySpawned(piece) ==
  /\ piece # NULL
  /\ piece.shape = SHAPES[piece.shapeIndex + 1][piece.rotation + 1]
  /\ piece.y = 0
  /\ piece.x = (BOARD_WIDTH \div 2) - (Len(piece.shape[1]) \div 2)

C14_WitnessGameEnded ==
  /\ lastOp.op = "tick"
  /\ lastOp.merged
  /\ gameState.gameOver
  /\ gameState.dropCounter = 0

\* C15: a tick that arrives while the session is paused changes none of
\* board, current piece, score, level, lines, dropCounter and the inactivity
\* counter, and a tick that arrives while not running or over changes no game
\* state at all.
C15_IdleTickChangesNothing ==
  [][ lastOp'.op = "tick" =>
        /\ (~gameState.gameRunning \/ gameState.gameOver) =>
              gameState' = gameState
        /\ gameState.gamePaused =>
              /\ gameState'.board = gameState.board
              /\ gameState'.currentPiece = gameState.currentPiece
              /\ gameState'.score = gameState.score
              /\ gameState'.level = gameState.level
              /\ gameState'.lines = gameState.lines
              /\ gameState'.dropCounter = gameState.dropCounter
              /\ gameState'.inactivityTimer = gameState.inactivityTimer
    ]_vars

\* A frame arrived while the session was paused by the p key: the session is
\* still paused and the inactivity counter keeps the time counted before the
\* pause (a frame that pauses the session itself leaves the counter at 0).
C15_Witness ==
  /\ lastOp.op = "tick"
  /\ gameState.gameRunning
  /\ ~gameState.gameOver
  /\ gameState.gamePaused
  /\ gameState.inactivityTimer > 0
  /\ gameState.dropCounter > 0

\* A frame arrived after the session ended and stopped the loop.
C15_WitnessOver ==
  /\ lastOp.op = "tick"
  /\ gameState.gameOver
  /\ ~animationId

\* C16: in a tick of a running, unpaused session, if the inactivity counter,
\* after adding the elapsed time, exceeds MAX_INACTIVITY, then at the end of
\* that tick the session is paused and the inactivity counter is 0.
C16_InactivityPauses ==
  [][ (ActiveTick /\ gameState.inactivityTimer + TickDelta > MAX_INACTIVITY) =>
        /\ gameState'.gamePaused
        /\ gameState'.inactivityTimer = 0
    ]_vars

\* A frame in which gravity was due found the session unpaused and left it
\* paused, with the inactivity counter at 0.
C16_Witness ==
  /\ lastOp.op = "tick"
  /\ lastOp.ret \/ lastOp.merged
  /\ gameState.gamePaused
  /\ gameState.inactivityTimer = 0
  /\ clock > MAX_INACTIVITY

\* C17: pauseGame() flips gamePaused (two consecutive calls restore the
\* original paused flag) without changing board, piece, score, level, lines
\* or dropCounter, and whenever a call resumes the game (paused becomes
\* false) the inactivity counter is 0 afterwards.  (The calls observed are
\* those of the p key.)
C17_PauseToggles ==
  /\ [](pauseGame(pauseGame(World, FALSE), FALSE).gameState.gamePaused
          = gameState.gamePaused)
  /\ [][ (lastOp'.op = "p" /\ lastOp'.ret) =>
           /\ gameState'.gamePaused = ~gameState.gamePaused
           /\ gameState'.board = gameState.board
           /\ gameState'.currentPiece = gameState.currentPiece
           /\ gameState'.score = gameState.score
           /\ gameState'.level = gameState.level
           /\ gameState'.lines = gameState.lines
           /\ gameState'.dropCounter = gameState.dropCounter
           /\ ~gameState'.gamePaused => gameState'.inactivityTimer = 0
       ]_vars

\* The p key resumed a session whose clock had advanced and whose piece had
\* been moved.
C17_Witness ==
  /\ lastOp.op = "p"
  /\ lastOp.ret
  /\ ~gameState.gamePaused
  /\ gameState.inactivityTimer = 0
  /\ gameState.dropCounter > 0
  /\ gameState.score > 0

\* The state is the one a restart() has just returned in.
AfterRestart == lastOp.op \in {"r", "restartTimer"} /\ lastOp.ret

\* What C18 states of the session after restart(), but for dropCounter.
FreshSession ==
  /\ gameState.gameRunning
  /\ ~gameState.gamePaused
  /\ ~gameState.gameOver
  /\ gameState.board = createBoard
  /\ gameState.score = 0
  /\ gameState.lines = 0
  /\ gameState.level = 1
  /\ gameState.dropInterval = 1000
  /\ errorCount = 0
  /\ FreshlySpawned(gameState.currentPiece)
  /\ ~isCollision(gameState.currentPiece, gameState.board, 0, 0)

\* C18: after restart() returns, from any reachable state, the session is
\* running, not paused and not over, the board is empty, score = 0,
\* lines = 0, level = 1, dropInterval = 1000, dropCounter = 0, the fault
\* counter is 0, and a freshly spawned, non-colliding piece is installed.
C18_RestartGivesFreshSession ==
  AfterRestart => (FreshSession /\ gameState.dropCounter = 0)

\* restart() has returned in a session that is fresh in everything but
\* dropCounter, which holds minus the time of the last frame of the session
\* before: restart() calls gameLoop() with time 0 and lastTime is not reset.
C18_NegativeDropCounter ==
  /\ AfterRestart
  /\ FreshSession
  /\ gameState.dropCounter < 0
  /\ gameState.dropCounter = gameState.inactivityTimer

\* C19: restart() cancels every callback the session before had scheduled
\* (the pending game-loop continuation, every delayed restart, every delayed
\* removal of a notice) before it reinitializes: when restart() returns, the
\* only callback pending is the game-loop continuation restart() itself
\* scheduled, so no callback scheduled before the restart can run in the new
\* session, whatever faults, key restarts and timer expiries came before.
C19_RestartCancelsCallbacks ==
  [][ RestartStep => (timers' = NoTimers /\ rafPending' = 1 /\ animationId') ]_vars

\* restart() has returned after it was entered with a game-loop continuation,
\* a delayed restart and the removal of a notice pending, and none of them is
\* pending any more.
C19_Witness ==
  /\ AfterRestart
  /\ lastOp.args[1].restart >= 1
  /\ lastOp.args[1].notice >= 1
  /\ lastOp.args[2] = 1
  /\ timers = NoTimers
  /\ rafPending = 1

\* The restart was that of the r key, pressed while the delayed restart of
\* a critical fault was pending.
C19_WitnessKey ==
  /\ lastOp.op = "r"
  /\ lastOp.ret
  /\ lastOp.args[1].restart >= 1
  /\ timers = NoTimers

\* The step is a spawnPiece() that called endGame().
EndGameStep == lastOp'.op = "spawnPiece" /\ lastOp'.ret

\* C20: endGame() sets gameOver = true and gameRunning = false; if score >
\* highScore it sets highScore to score and persists that value to the
\* store, and if score <= highScore it changes neither highScore nor the
\* store; so after endGame highScore = max(previous highScore, score).
C20_EndGameRecordsHighScore ==
  [][ EndGameStep =>
        /\ gameState'.gameOver
        /\ ~gameState'.gameRunning
        /\ IF gameState.score > gameState.highScore
           THEN /\ gameState'.highScore = gameState.score
                /\ storage' = toString(gameState.score)
           ELSE /\ gameState'.highScore = gameState.highScore
                /\ storage' = storage
        /\ gameState'.highScore = Max(gameState.highScore, gameState.score)
    ]_vars

\* A game has ended with a score above the largest the store accepts:
\* highScore is that score, the store still holds the high score of before.
C20_HighScoreNotPersisted ==
  /\ lastOp.op = "spawnPiece"
  /\ lastOp.ret
  /\ gameState.gameOver
  /\ gameState.score = MaxStoredScore + 1
  /\ gameState.highScore = gameState.score
  /\ loadHighScore(storage).score < gameState.highScore

\* What C20 states holds of every endGame() with a score the store accepts.
C20_EndGameWithinStoreRange ==
  [][ (EndGameStep /\ gameState.score <= MaxStoredScore) =>
        /\ gameState'.gameOver
        /\ ~gameState'.gameRunning
        /\ IF gameState.score > gameState.highScore
           THEN /\ gameState'.highScore = gameState.score
                /\ storage' = toString(gameState.score)
           ELSE /\ gameState'.highScore = gameState.highScore
                /\ storage' = storage
        /\ gameState'.highScore = Max(gameState.highScore, gameState.score)
    ]_vars

\* A game has ended with a new high score, which the store holds.
C20_WitnessPersisted ==
  /\ lastOp.op = "spawnPiece"
  /\ lastOp.ret
  /\ gameState.score = MaxStoredScore
  /\ gameState.highScore = MaxStoredScore
  /\ storage = toString(MaxStoredScore)

\* The keys processKeyInput decodes, by the name the history gives them.
KeyIntents == {"ArrowLeft", "ArrowRight", "ArrowDown", "ArrowUp", " ", "p", "r"}

\* C21: while the session is in GameOver, every player intent other than
\* restart (move-left, move-right, soft-drop, rotate, hard-drop,
\* toggle-pause) leaves the whole game state unchanged, and a restart intent
\* is accepted and starts a new session.
C21_GameOverAcceptsOnlyRestart ==
  /\ [][ (gameState.gameOver /\ lastOp'.op \in KeyIntents \ {"r"}) =>
           /\ gameState' = gameState
           /\ UNCHANGED << storage, errorCount, timers, animationId,
                           rafPending, lastTime, clock, listening, hidden, focused, merged >>
       ]_vars
  /\ [][ (gameState.gameOver /\ lastOp'.op = "r") =>
           /\ lastOp'.ret
           /\ gameState'.gameRunning
           /\ ~gameState'.gameOver
           /\ ~gameState'.gamePaused
           /\ gameState'.board = createBoard
           /\ gameState'.score = 0
           /\ FreshlySpawned(gameState'.currentPiece)
       ]_vars

\* A move key was pressed on a session that is over and whose inactivity
\* counter had advanced.
C21_Witness ==
  /\ gameState.gameOver
  /\ lastOp.op \in {"ArrowLeft", "ArrowRight", "ArrowDown", "ArrowUp"}
  /\ gameState.inactivityTimer > 0

\* The r key restarted a session that was over and whose last frame had
\* already run (no frame was pending).
C21_WitnessRestart ==
  /\ lastOp.op = "r"
  /\ lastOp.ret
  /\ lastOp.args[2] = 0
  /\ gameState.gameRunning

\* C22: while the session is paused (and not over), every player intent
\* other than toggle-pause (move-left, move-right, soft-drop, rotate,
\* hard-drop, restart) leaves the game state, including piece, board, score
\* and the inactivity counter, unchanged; toggle-pause resumes.
C22_PausedAcceptsOnlyToggle ==
  /\ [][ (gameState.gamePaused /\ ~gameState.gameOver
            /\ lastOp'.op \in KeyIntents \ {"p"}) =>
           gameState' = gameState
       ]_vars
  /\ [][ (gameState.gamePaused /\ ~gameState.gameOver /\ lastOp'.op = "p") =>
           ~gameState'.gamePaused
       ]_vars

\* What C22 states but for the inactivity counter: a key other than p
\* pressed on a paused session changes nothing else, and r changes nothing.
C22_PausedKeepsAllButInactivity ==
  [][ (gameState.gamePaused /\ ~gameState.gameOver
         /\ lastOp'.op \in KeyIntents \ {"p"}) =>
        /\ [gameState' EXCEPT !.inactivityTimer = 0]
             = [gameState EXCEPT !.inactivityTimer = 0]
        /\ gameState'.inactivityTimer \in {0, gameState.inactivityTimer}
        /\ lastOp'.op = "r" => gameState' = gameState
    ]_vars

\* A move key was pressed on a session paused after its first frame: the
\* session is still paused, its inactivity counter is 0 while dropCounter
\* still holds the time of that frame.
C22_InactivityResetWhilePaused ==
  /\ gameState.gamePaused
  /\ ~gameState.gameOver
  /\ lastOp.op \in {"ArrowLeft", "ArrowRight", "ArrowDown", "ArrowUp"}
  /\ ~lastOp.ret
  /\ gameState.inactivityTimer = 0
  /\ gameState.dropCounter = DeltaShort
  /\ clock = DeltaShort

\* C23: each fault passed to handleGameError increments the fault counter by
\* exactly one; while the counter stays below the ceiling MAX_ERRORS local
\* recovery is attempted and nothing is scheduled; once the counter reaches
\* the ceiling a full restart is scheduled with every fault, a restart
\* eventually runs, and every restart resets the counter to 0.
C23_FaultsEscalateToRestart ==
  /\ [][ lastOp'.op = "fault" =>
           /\ errorCount' = errorCount + 1
           /\ IF errorCount' < MAX_ERRORS
              THEN /\ ~lastOp'.ret
                   /\ timers' = timers
                   /\ gameState' =
                        validateAndFixGameState(World,
                          CHOOSE c \in FaultChoices : TRUE).gameState
              ELSE /\ lastOp'.ret
                   /\ timers'.restart = timers.restart + 1
                   /\ gameState' = gameState
       ]_vars
  /\ [][ RestartStep => errorCount' = 0 ]_vars
  /\ [](errorCount >= MAX_ERRORS => timers.restart > 0)
  /\ (errorCount >= MAX_ERRORS) ~> (AfterRestart /\ errorCount = 0)

\* The delayed restart of a critical fault has run and the counter is 0; the
\* session it replaced had shown its notice.
C23_Witness ==
  /\ lastOp.op = "restartTimer"
  /\ lastOp.ret
  /\ lastOp.args[1].notice >= 1
  /\ errorCount = 0
  /\ gameState.gameRunning

\* The counter stands at the ceiling and the restart is pending.
C23_WitnessEscalated ==
  /\ lastOp.op = "fault"
  /\ lastOp.ret
  /\ errorCount = MAX_ERRORS
  /\ timers.restart = 1

\* C24: after a fault has escalated to a critical fault, no gravity tick is
\* processed on the faulted session until the scheduled full restart has
\* completed.
C24_NoTickWhileRestartPending ==
  [][ timers.restart > 0 => ~ActiveTick ]_vars

\* A frame has moved or landed the piece of a session whose critical-fault
\* restart is still pending.
C24_TickWhileRestartPending ==
  /\ lastOp.op = "tick"
  /\ lastOp.ret \/ lastOp.merged
  /\ timers.restart > 0
  /\ errorCount >= MAX_ERRORS

\* The rows of the matrix do not all have the same length.
JaggedRows(piece) ==
  \E r1, r2 \in 1..Len(piece.shape) : Len(piece.shape[r1]) # Len(piece.shape[r2])

\* C25: isCollision fails closed on malformed pieces: it returns true for
\* every piece whose matrix is empty, whose matrix rows do not all have the
\* same length, or whose x or y is not a finite number.
C25_MalformedPieceCollides ==
  LET piece == gameState.currentPiece
  IN  ( /\ lastOp.op = "isCollision"
        /\ \/ Len(piece.shape) = 0
           \/ JaggedRows(piece)
           \/ ~isFinite(piece.x)
           \/ ~isFinite(piece.y) )
      => lastOp.ret

\* isCollision returned false for a piece at a finite position whose matrix
\* has a row of two cells and a row of one.
C25_JaggedPieceAccepted ==
  /\ lastOp.op = "isCollision"
  /\ ~lastOp.ret
  /\ gameState.currentPiece.shape = << <<1, 1>>, <<1>> >>
  /\ isFinite(gameState.currentPiece.x)
  /\ isFinite(gameState.currentPiece.y)

\* isCollision returned false for the T at x = NaN.
C25_NaNPositionAccepted ==
  /\ lastOp.op = "isCollision"
  /\ ~lastOp.ret
  /\ gameState.currentPiece.shape = SHAPES[1][1]
  /\ gameState.currentPiece.x = NaN

\* The part of C25 that holds: isCollision returns true for every piece
\* whose matrix is empty or has an empty row, and for every piece with x or
\* y at Infinity or -Infinity.
C25_EmptyAndInfiniteCollide ==
  LET piece == gameState.currentPiece
  IN  ( /\ lastOp.op = "isCollision"
        /\ \/ Len(piece.shape) = 0
           \/ \E r \in 1..Len(piece.shape) : Len(piece.shape[r]) = 0
           \/ piece.x \in {Infinity, -Infinity}
           \/ piece.y \in {Infinity, -Infinity} )
      => lastOp.ret

\* isCollision returned true for a piece with an empty row at a cell of the
\* board.
C25_WitnessEmptyRow ==
  /\ lastOp.op = "isCollision"
  /\ lastOp.ret
  /\ gameState.currentPiece.shape = << <<1, 1>>, <<>> >>
  /\ gameState.currentPiece.x = 0
  /\ gameState.currentPiece.y = 0
  /\ lastOp.args = <<0, 0>>

\* The four validated values of the configuration are within their limits.
ConfigInRange(config) ==
  /\ config.boardWidth \in 4..50
  /\ config.boardHeight \in 4..50
  /\ config.blockSize \in 1..100
  /\ config.maxLevel \in 1..1000

\* The constructor did what C26 states for the configuration.
ConstructedAsStated(config, r) ==
  IF ConfigInRange(config)
  THEN /\ r.threw = ""
       /\ r.CONFIG = [ BOARD_WIDTH |-> config.boardWidth,
                       BOARD_HEIGHT |-> config.boardHeight,
                       BLOCK_SIZE |-> config.blockSize,
                       MAX_LEVEL |-> config.maxLevel ]
  ELSE /\ r.threw = "ValidationError"
       /\ ~r.created
       /\ ~gameState.created

\* C26: constructing a session fails with a ValidationError, before any game
\* state is created, for every configuration in which boardWidth or
\* boardHeight is outside [4, 50], blockSize is outside [1, 100] or
\* maxLevel is outside [1, 1000] (0 and negative numbers included), and
\* succeeds with exactly the supplied values when all are in range.
C26_ConstructionValidatesConfig ==
  lastOp.op = "constructor" => ConstructedAsStated(lastOp.args[1], lastOp.ret)

\* Construction succeeded for boardWidth = 0 with the other values in
\* range: the session has the default width 12.
C26_ZeroWidthAccepted ==
  /\ lastOp.op = "constructor"
  /\ lastOp.args[1].boardWidth = 0
  /\ lastOp.ret.threw = ""
  /\ gameState.created
  /\ lastOp.ret.CONFIG.BOARD_WIDTH = 12

\* The part of C26 that holds: it holds of every configuration that
\* supplies no 0.
C26_NonZeroConfigValidated ==
  ( /\ lastOp.op = "constructor"
    /\ lastOp.args[1].boardWidth # 0
    /\ lastOp.args[1].boardHeight # 0
    /\ lastOp.args[1].blockSize # 0
    /\ lastOp.args[1].maxLevel # 0 )
  => ConstructedAsStated(lastOp.args[1], lastOp.ret)

\* Construction failed for a negative boardHeight.
C26_WitnessNegativeRejected ==
  /\ lastOp.op = "constructor"
  /\ lastOp.args[1].boardHeight = -1
  /\ lastOp.args[1].boardWidth = 4
  /\ lastOp.ret.threw = "ValidationError"
  /\ ~gameState.created

\* C27: for every integer score in [0, 999999999], saveHighScore(score)
\* followed by loadHighScore() returns score; for every score outside that
\* range saveHighScore leaves the stored value unchanged.
C27_SaveLoadRoundTrip ==
  /\ lastOp.op = "loadHighScore" =>
       (lastOp.args[1] \in 0..MaxStoredScore => lastOp.ret = lastOp.args[1])
  /\ lastOp.op = "saveHighScore" =>
       (lastOp.args[1] \notin 0..MaxStoredScore => storage = lastOp.args[2])

\* loadHighScore() returned the largest accepted score after it was saved
\* over a store that held another score.
C27_Witness ==
  /\ lastOp.op = "loadHighScore"
  /\ lastOp.args[1] = MaxStoredScore
  /\ lastOp.ret = MaxStoredScore
  /\ lastOp.args[2] = toString(40)

\* saveHighScore left the store alone for a score above the range.
C27_WitnessRejected ==
  /\ lastOp.op = "saveHighScore"
  /\ lastOp.args[1] = MaxStoredScore + 1
  /\ lastOp.args[2] = toString(40)
  /\ storage = toString(40)

\* The step is a window blur or the page becoming hidden.
BlurOrHiddenStep ==
  \/ lastOp'.op = "blur"
  \/ lastOp'.op = "visibilitychange" /\ hidden'

\* C28: a window-blur or page-hidden event delivered to a running, not-over
\* session always leaves the session paused: it never resumes a session that
\* is already paused, in whatever order blur and visibility-change events
\* arrive.
C28_BlurLeavesSessionPaused ==
  [][ (BlurOrHiddenStep /\ gameState.gameRunning /\ ~gameState.gameOver) =>
        gameState'.gamePaused ]_vars

\* The window lost the focus just after the page was hidden, and the session
\* is running: hidden, without focus and not paused.
C28_ResumedByBlur ==
  /\ lastOp.op = "blur"
  /\ lastOp.ret
  /\ hidden
  /\ ~focused
  /\ gameState.gameRunning
  /\ ~gameState.gameOver
  /\ ~gameState.gamePaused

\* The part of C28 that holds: a blur or page-hidden event delivered to a
\* running, not-over, unpaused session pauses it.
C28_BlurPausesUnpausedSession ==
  [][ ( /\ BlurOrHiddenStep
        /\ gameState.gameRunning
        /\ ~gameState.gameOver
        /\ ~gameState.gamePaused ) =>
        gameState'.gamePaused ]_vars

\* C29: player input keeps working across restarts: after a restart by the
\* r key or by the delayed restart of a critical fault, the key-down
\* listener is still registered, so later key-downs are delivered.
C29_InputSurvivesRestart ==
  [][ RestartStep => listening' ]_vars

\* A frame of the session started by a restart moved the piece, and no
\* listener is registered: no key reaches the session in play.
C29_DeafAfterRestart ==
  /\ ~listening
  /\ lastOp.op = "tick"
  /\ lastOp.ret
  /\ keyAccepted

\* Listeners removed by restart() are never registered again, and nothing
\* but a restart removes them.
C29_ListenersNeverReturn ==
  /\ [][ ~listening => ~listening' ]_vars
  /\ [][ (listening /\ ~listening') => RestartStep ]_vars

\* The occupied cell of the piece lies inside the board, on an empty cell.
CellFree(piece, board, cell) ==
  LET boardX == piece.x + cell[2]
      boardY == piece.y + cell[1]
  IN  /\ 0 <= boardX
      /\ boardX < BOARD_WIDTH
      /\ 0 <= boardY
      /\ boardY < BOARD_HEIGHT
      /\ board[boardY + 1][boardX + 1] = 0

\* Every occupied cell of the piece lies inside the board, on an empty cell.
PieceFree(piece, board) ==
  \A cell \in OccupiedCells(piece) : CellFree(piece, board, cell)

C30_WitnessPaused ==
  /\ gameState.gameRunning
  /\ gameState.gamePaused
  /\ ~gameState.gameOver
  /\ gameState.currentPiece # NULL
  /\ gameState.currentPiece.rotation # 0
  /\ \E cell \in OccupiedCells(gameState.currentPiece) :
       gameState.currentPiece.x + cell[2] = BOARD_WIDTH - 1

\* C31: at most one callback of gameLoop is pending at any time, whatever
\* the order of frames, game over, restarts by the r key and delayed
\* restarts; the pending callback is the one whose handle animationId holds.
C31_SingleGameLoop ==
  /\ rafPending <= 1
  /\ rafPending = 1 => animationId

\* A delayed restart ran while a frame of the session it replaced was
\* pending: the frame was cancelled and one frame is pending.
C31_Witness ==
  /\ lastOp.op = "restartTimer"
  /\ lastOp.args[2] = 1
  /\ rafPending = 1

\* A restart ran after the loop of a finished session had stopped.
C31_WitnessStoppedLoop ==
  /\ AfterRestart
  /\ lastOp.args[2] = 0
  /\ rafPending = 1

\* C32: once the session is over, board, score, level and lines do not
\* change until restart() runs, whatever frames, keys, blur, focus and
\* visibility events, faults and pending callbacks occur in between.
C32_GameOverFreezesBoardAndScore ==
  [][ (gameState.gameOver /\ ~RestartStep) =>
        /\ gameState'.gameOver
        /\ gameState'.board = gameState.board
        /\ gameState'.score = gameState.score
        /\ gameState'.level = gameState.level
        /\ gameState'.lines = gameState.lines ]_vars

\* The window lost the focus after the session had ended.
C32_Witness ==
  /\ gameState.gameOver
  /\ lastOp.op = "blur"
  /\ ~focused

\* A frame callback ran after the session had ended and stopped the loop.
C32_WitnessFrame ==
  /\ gameState.gameOver
  /\ lastOp.op = "tick"
  /\ ~animationId
  /\ rafPending = 0

\* A fault was reported after the session had ended.
C32_WitnessFault ==
  /\ gameState.gameOver
  /\ lastOp.op = "fault"

\* C33: between steps, hence at every frame and after every hard drop, the
\* board has no full row: the clearLines call of a merge removes every row
\* the merge completed, before the next piece is spawned.
C33_NoFullRowRemains ==
  /\ [](FullRows(gameState.board) = {})
  /\ [][ lastOp'.merged =>
           /\ lastOp'.cleared = Cardinality(FullRows(lastOp'.mergedBoard))
           /\ gameState'.lines = gameState.lines + lastOp'.cleared ]_vars

\* A hard drop completed a row, which its clearLines call removed; the
\* session goes on with the next piece.
C33_Witness ==
  /\ lastOp.merged
  /\ lastOp.op = " "
  /\ lastOp.cleared >= 1
  /\ FullRows(lastOp.mergedBoard) # {}
  /\ FullRows(gameState.board) = {}
  /\ gameState.gameRunning
  /\ ~gameState.gameOver

\* A frame landed a piece that completed rows.
C33_WitnessFrame ==
  /\ lastOp.merged
  /\ lastOp.op = "tick"
  /\ lastOp.cleared >= 1

\* The occupied cells of the board.
NonZeroCells(board) ==
  { cell \in (1..Len(board)) \X (1..BOARD_WIDTH) : board[cell[1]][cell[2]] # 0 }

\* C34: in every state of a session the number of nonzero board cells is
\* 4 * (pieces merged since the session started) - BOARD_WIDTH * lines:
\* every merge adds exactly four cells and every cleared line removes
\* exactly BOARD_WIDTH cells.
C34_CellConservation ==
  /\ [](Cardinality(NonZeroCells(gameState.board)) =
          4 * merged - BOARD_WIDTH * gameState.lines)
  /\ [][ lastOp'.merged =>
           /\ Cardinality(NonZeroCells(lastOp'.mergedBoard)) =
                Cardinality(NonZeroCells(gameState.board)) + 4
           /\ Cardinality(NonZeroCells(gameState'.board)) =
                Cardinality(NonZeroCells(lastOp'.mergedBoard))
                  - BOARD_WIDTH * lastOp'.cleared ]_vars

\* A merge completed a row: one piece merged, one line cleared, no cell
\* left on the board.
C34_Witness ==
  /\ lastOp.merged
  /\ lastOp.cleared = 1
  /\ merged = 1
  /\ gameState.lines = 1
  /\ NonZeroCells(gameState.board) = {}

\* A merge that completed no row: four cells on the board.
C34_WitnessFourCells ==
  /\ lastOp.merged
  /\ lastOp.cleared = 0
  /\ merged = 1
  /\ Cardinality(NonZeroCells(gameState.board)) = 4

====
